---- MODULE Spec2Model ----
(***************************************************************************)
(* Verification model of the enrollment-status / weighted-grade engine and *)
(* of the spreadsheet import workflow of appGestionAcademica.               *)
(*                                                                         *)
(* Units.  Grades, scores and pass thresholds are Python floats with two   *)
(* decimals (QDoubleSpinBox.setDecimals(2)); they are modelled as integers *)
(* counting hundredths of a point (7.0 -> 700, 10.0 -> 1000).  Weights are *)
(* whole percents.  Dates are day numbers.  None is the number NULL.        *)
(***************************************************************************)
EXTENDS Integers, Sequences, FiniteSets, TLC

VARIABLES
    hoy,            \* date.today(), a day number
    cursos,         \* table cursos: id -> [nota_aprobacion, fecha_final]
    evaluaciones,   \* table evaluaciones_curso: id -> [curso_id, porcentaje]
    personas,       \* table personas: id -> [cedula, nombre, centro_id,
                    \*     correo]
    matriculas,     \* table matriculas: id -> [persona_id, curso_id,
                    \*     centro_id, nota_final, estado]
    calificaciones, \* table calificaciones: <<matricula_id, evaluacion_id>>
                    \*     -> puntaje
    ultima_op,      \* the recompute that ran last, "otra" after any other step
    cambiados,      \* 1 when the last recompute (or the sweep that a repeated
                    \*     sweep follows) changed some estado, else 0
    entrada,        \* arguments of the pure function under analysis
    salida,         \* <<its return value>>, NoLlamado before the call
    previa,         \* the argument a mutated identifier was derived from
    aliases,        \* table cedula_alias: id -> [alias_valor, persona_id]
    imp_pc,         \* position of the import workflow
    archivo,        \* the rows of the selected spreadsheet
    mapa_actividades,   \* evaluation ids the user linked to a column
    validos,        \* Validator.procesar: the rows accepted as valid
    revision,       \* Validator.procesar: the rows that need review
    guion,          \* what the user answered for each row under review
    lista_final,    \* lista_final_unica handed to WorkerGuardado
    lista_omitidos, \* GestorImportacion.lista_omitidos
    reporte_errores,    \* GestorImportacion.reporte_errores
    resultado,      \* ResultadoProceso of the batch
    cache_estudiantes,  \* PersistenceService.cache_estudiantes
    cache_matriculas,   \* PersistenceService.cache_matriculas
    falla,          \* the persistence call of the commit that raises
    aprendidos      \* history: <<X, Y>> for every row with identifier X
                    \* that was corrected to Y in review and committed

varsBD == <<hoy, cursos, evaluaciones, personas, matriculas, calificaciones,
            ultima_op, cambiados>>
varsFn == <<entrada, salida, previa>>
varsImp == <<aliases, imp_pc, archivo, mapa_actividades, validos, revision,
             guion, lista_final, lista_omitidos, reporte_errores, resultado,
             cache_estudiantes, cache_matriculas, falla, aprendidos>>
vars == <<varsBD, varsFn, varsImp>>

-----------------------------------------------------------------------------
(* Values *)

NULL == 0 - 1

NoLlamado == <<>>

\* Bounds of the model
MaxDia == 2
MaxEntradas == 2
DeltaLong == 1
MaxPersonas == 2

\* Sample values (hundredths of a point, whole percents)
NotasMuestra == {0, 1, 500, 699, 700, 701, 1000}
UmbralesMuestra == {0, 700, 1000}
PuntajesMuestra == {0, 125, 333, 600, 800, 1000}
PesosMuestra == {15, 40, 50, 60, 100}

Dias == 1..MaxDia

EstadosResolver == {"NO REALIZO", "APROBADO", "REPROBADO", "EN CURSO"}

\* The store of a run that only exercises a pure function
BDVacia ==
    /\ cursos = <<>>
    /\ evaluaciones = <<>>
    /\ personas = <<>>
    /\ matriculas = <<>>
    /\ calificaciones = <<>>
    /\ ultima_op = "otra"
    /\ cambiados = 0

SinFuncion ==
    /\ entrada = [op |-> "ninguna"]
    /\ salida = NoLlamado
    /\ previa = <<>>

\* ResultadoProceso(): every counter 0 and no notes
ResultadoProceso ==
    [nuevos_estudiantes |-> 0, matriculas_nuevas |-> 0,
     matriculas_actualizadas |-> 0, registros_omitidos |-> 0,
     errores |-> <<>>]

\* Every persistence call of the commit succeeds
SinFalla == [fila |-> 0, paso |-> "ninguno"]

\* GestorImportacion.__init__ and a PersistenceService with empty caches
SinImportacion ==
    /\ imp_pc = "inactivo"
    /\ archivo = <<>>
    /\ mapa_actividades = {}
    /\ validos = <<>>
    /\ revision = <<>>
    /\ guion = <<>>
    /\ lista_final = <<>>
    /\ lista_omitidos = <<>>
    /\ reporte_errores = <<>>
    /\ resultado = ResultadoProceso
    /\ cache_estudiantes = <<>>
    /\ cache_matriculas = <<>>
    /\ falla = SinFalla
    /\ aprendidos = {}

-----------------------------------------------------------------------------
(* MatriculaModel.determinar_estado *)

\* The same resolver with every unfinished enrollment of a closed course
\* resolved as NO REALIZO
determinar_estado_sin_reprobado(nota_final, curso_obj, es_abandono, hoy_) ==
    IF es_abandono
    THEN "NO REALIZO"
    ELSE IF nota_final = NULL
    THEN "TypeError"
    ELSE IF nota_final >= curso_obj.nota_aprobacion
    THEN "APROBADO"
    ELSE IF curso_obj.fecha_final = NULL
    THEN "EN CURSO"
    ELSE IF curso_obj.fecha_final < hoy_
    THEN "NO REALIZO"
    ELSE "EN CURSO"

\* The same resolver without the test of rule 1
determinar_estado_sin_regla1(nota_final, curso_obj, es_abandono, hoy_) ==
    IF nota_final = NULL
    THEN "TypeError"
    ELSE IF nota_final >= curso_obj.nota_aprobacion
    THEN "APROBADO"
    ELSE IF curso_obj.fecha_final = NULL
    THEN "EN CURSO"
    ELSE IF curso_obj.fecha_final < hoy_
    THEN (IF nota_final = 0 THEN "NO REALIZO" ELSE "REPROBADO")
    ELSE "EN CURSO"

\* The same resolver with the date tested before the merit rule
determinar_estado_fecha_primero(nota_final, curso_obj, es_abandono, hoy_) ==
    IF es_abandono
    THEN "NO REALIZO"
    ELSE IF nota_final = NULL
    THEN "TypeError"
    ELSE IF curso_obj.fecha_final # NULL /\ curso_obj.fecha_final < hoy_
    THEN (IF nota_final = 0 THEN "NO REALIZO" ELSE "REPROBADO")
    ELSE IF nota_final >= curso_obj.nota_aprobacion
    THEN "APROBADO"
    ELSE "EN CURSO"

\* The same resolver with a closed course decided by <= instead of <
determinar_estado_cierre_inclusivo(nota_final, curso_obj, es_abandono, hoy_) ==
    IF es_abandono
    THEN "NO REALIZO"
    ELSE IF nota_final = NULL
    THEN "TypeError"
    ELSE IF nota_final >= curso_obj.nota_aprobacion
    THEN "APROBADO"
    ELSE IF curso_obj.fecha_final = NULL
    THEN "EN CURSO"
    ELSE IF curso_obj.fecha_final <= hoy_
    THEN (IF nota_final = 0 THEN "NO REALIZO" ELSE "REPROBADO")
    ELSE "EN CURSO"

\* Rule 1, then `nota_final >= curso_obj.nota_aprobacion`, which raises
\* TypeError when nota_final is None (the test `nota_final is None` of the
\* closed-course branch comes after it and is never reached with None),
\* then the date rules.
determinar_estado(nota_final, curso_obj, es_abandono, hoy_) ==
    IF es_abandono
    THEN "NO REALIZO"
    ELSE IF nota_final = NULL
    THEN "TypeError"
    ELSE IF nota_final >= curso_obj.nota_aprobacion
    THEN "APROBADO"
    ELSE IF curso_obj.fecha_final = NULL
    THEN "EN CURSO"
    ELSE IF curso_obj.fecha_final < hoy_
    THEN (IF nota_final = 0 \/ nota_final = NULL
          THEN "NO REALIZO"
          ELSE "REPROBADO")
    ELSE "EN CURSO"

-----------------------------------------------------------------------------
(* Specification of the resolver as a pure function: Init draws the        *)
(* arguments, LlamarResolver applies the function.                         *)

ArgsResolver ==
    [op : {"determinar_estado"},
     nota_final : NotasMuestra \cup {NULL},
     curso : [nota_aprobacion : UmbralesMuestra,
              fecha_final : Dias \cup {NULL}],
     es_abandono : BOOLEAN]

InitEstado ==
    /\ hoy \in Dias
    /\ BDVacia
    /\ entrada \in ArgsResolver
    /\ salida = NoLlamado
    /\ previa = <<>>
    /\ aliases = <<>>
    /\ SinImportacion

LlamarResolver ==
    /\ entrada.op = "determinar_estado"
    /\ salida = NoLlamado
    /\ salida' = <<determinar_estado(entrada.nota_final, entrada.curso,
                                     entrada.es_abandono, hoy)>>
    /\ UNCHANGED <<varsBD, entrada, previa, varsImp>>

NextEstado == LlamarResolver

SpecEstado == InitEstado /\ [][NextEstado]_vars

ResolverLlamado == entrada.op = "determinar_estado" /\ salida # NoLlamado

CursoCerrado(c, d) == c.fecha_final # NULL /\ c.fecha_final < d

\* C1: with the withdrawal flag set the resolver returns NO REALIZO for
\* every grade (null included), every threshold and every end date.
C1_AbandonoGana ==
    (ResolverLlamado /\ entrada.es_abandono) => salida[1] = "NO REALIZO"

C1_Witness ==
    /\ ResolverLlamado
    /\ entrada.es_abandono
    /\ entrada.nota_final >= entrada.curso.nota_aprobacion
    /\ entrada.nota_final > 0
    /\ salida[1] = "NO REALIZO"

\* C2: without the withdrawal flag, a grade at or above the threshold gives
\* APROBADO whether the course is closed, open or has no end date.
C2_MeritoGana ==
    (/\ ResolverLlamado
     /\ ~entrada.es_abandono
     /\ entrada.nota_final # NULL
     /\ entrada.nota_final >= entrada.curso.nota_aprobacion)
        => salida[1] = "APROBADO"

C2_Witness ==
    /\ ResolverLlamado
    /\ ~entrada.es_abandono
    /\ entrada.nota_final >= entrada.curso.nota_aprobacion
    /\ CursoCerrado(entrada.curso, hoy)
    /\ salida[1] = "APROBADO"

\* C3 (as claimed): closed course, no withdrawal flag, grade below the
\* threshold or absent: NO REALIZO for 0.0 and for null, REPROBADO otherwise.
C3_CursoCerrado ==
    (/\ ResolverLlamado
     /\ ~entrada.es_abandono
     /\ CursoCerrado(entrada.curso, hoy)
     /\ (entrada.nota_final = NULL
            \/ entrada.nota_final < entrada.curso.nota_aprobacion))
        => salida[1] = (IF entrada.nota_final \in {0, NULL}
                     THEN "NO REALIZO"
                     ELSE "REPROBADO")

\* C4: without the withdrawal flag and with a grade below the threshold the
\* resolver returns EN CURSO when the course has no end date or ends today
\* or later.
C4_CursoAbierto ==
    (/\ ResolverLlamado
     /\ ~entrada.es_abandono
     /\ entrada.nota_final # NULL
     /\ entrada.nota_final < entrada.curso.nota_aprobacion
     /\ ~CursoCerrado(entrada.curso, hoy))
        => salida[1] = "EN CURSO"

C4_Witness ==
    /\ ResolverLlamado
    /\ ~entrada.es_abandono
    /\ entrada.nota_final # NULL
    /\ entrada.nota_final < entrada.curso.nota_aprobacion
    /\ entrada.curso.fecha_final = hoy
    /\ salida[1] = "EN CURSO"

-----------------------------------------------------------------------------
(* MatriculaModel.calcular_nota_ponderada *)

Abs(x) == IF x < 0 THEN 0 - x ELSE x

\* round(n / d) as Python's round(x, 2) can return it: the nearest integer
\* to n/d.  When n/d lies exactly half way between two hundredths the float
\* that reaches round() is the binary approximation of a decimal tie and
\* may fall on either side, so both neighbours are possible results.
Redondeos(n, d) ==
    {q \in (n \div d)..((n \div d) + 1) : 2 * Abs(q * d - n) <= d}

\* The loop `suma_ponderada += (puntaje / 10.0) * peso`, left to right.
\* Unit of the result: hundredths of a point times percent, so that
\* (puntaje / 10) * peso is this number divided by 1000.
RECURSIVE suma_ponderada(_)
suma_ponderada(lista_notas) ==
    IF lista_notas = <<>>
    THEN 0
    ELSE suma_ponderada(SubSeq(lista_notas, 1, Len(lista_notas) - 1))
            + lista_notas[Len(lista_notas)].puntaje
                * lista_notas[Len(lista_notas)].peso

DivisorPromedio == 100

\* The same computation with the final division by 10 left out
calcular_nota_ponderada_sin_division(lista_notas) ==
    Redondeos(suma_ponderada(lista_notas), 10)

\* round(suma_ponderada / 10.0, 2), in hundredths of a point: the set of
\* values the call can return (one value except at an exact tie).
calcular_nota_ponderada(lista_notas) ==
    Redondeos(suma_ponderada(lista_notas), DivisorPromedio)

EntradasNota == [puntaje : PuntajesMuestra, peso : PesosMuestra]

ListasNotas ==
    UNION {[1..n -> EntradasNota] : n \in 0..MaxEntradas}

InitNota ==
    /\ hoy = 1
    /\ BDVacia
    /\ entrada \in [op : {"calcular_nota_ponderada"}, lista_notas : ListasNotas]
    /\ salida = NoLlamado
    /\ previa = <<>>
    /\ aliases = <<>>
    /\ SinImportacion

LlamarCalcular ==
    /\ entrada.op = "calcular_nota_ponderada"
    /\ salida = NoLlamado
    /\ \E r \in calcular_nota_ponderada(entrada.lista_notas) : salida' = <<r>>
    /\ UNCHANGED <<varsBD, entrada, previa, varsImp>>

NextNota == LlamarCalcular

SpecNota == InitNota /\ [][NextNota]_vars

CalcularLlamado == entrada.op = "calcular_nota_ponderada" /\ salida # NoLlamado

\* Sum over the entries of puntaje * peso, taken over the index set
SumaSobre(l, S) ==
    LET RECURSIVE Sum(_)
        Sum(T) == IF T = {} THEN 0
                  ELSE LET i == CHOOSE j \in T : TRUE
                       IN  l[i].puntaje * l[i].peso + Sum(T \ {i})
    IN  Sum(S)

SumaPesos(l) ==
    LET RECURSIVE Sum(_)
        Sum(T) == IF T = {} THEN 0
                  ELSE LET i == CHOOSE j \in T : TRUE
                       IN  l[i].peso + Sum(T \ {i})
    IN  Sum(DOMAIN l)

\* C7: the result is the sum of (score/10)*weight over the entries, divided
\* by 10 and rounded to the nearest hundredth; [] gives 0.0, [(10,100)] gives
\* 10.0, [(8,40),(6,60)] gives 6.8, and a list whose weights sum to less
\* than 100 gives a value (never an error) that is at most 10 * sum/100.
C7_NotaPonderada ==
    CalcularLlamado =>
        LET l == entrada.lista_notas
            exacta == SumaSobre(l, DOMAIN l)
        IN  /\ salida[1] \in Int
            /\ 2 * Abs(salida[1] * 100 - exacta) <= 100
            /\ (exacta % 100 = 0 => salida[1] * 100 = exacta)
            /\ (l = <<>> => salida[1] = 0)
            /\ (l = <<[puntaje |-> 1000, peso |-> 100]>> => salida[1] = 1000)
            /\ (l = <<[puntaje |-> 800, peso |-> 40],
                      [puntaje |-> 600, peso |-> 60]>> => salida[1] = 680)
            /\ (SumaPesos(l) < 100 => salida[1] <= 10 * SumaPesos(l))

C7_Witness ==
    /\ CalcularLlamado
    /\ entrada.lista_notas = <<[puntaje |-> 800, peso |-> 40],
                               [puntaje |-> 600, peso |-> 60]>>
    /\ salida[1] = 680

-----------------------------------------------------------------------------
(* Sanitizer.validar_cedula_ecuador *)

\* A string is a sequence of characters; the characters '0'..'9' are the
\* numbers 0..9 and NoDigito is a character for which str.isdigit() is false.
NoDigito == 10
LongCedula == 10
Digitos == 0..9

isdigit(s) == s # <<>> /\ \A i \in DOMAIN s : s[i] \in Digitos

coeficientes == <<2, 1, 2, 1, 2, 1, 2, 1, 2>>

RECURSIVE total_modulo10(_, _, _)
total_modulo10(cedula, coefs, i) ==
    IF i = 0
    THEN 0
    ELSE LET valor == cedula[i] * coefs[i]
         IN  total_modulo10(cedula, coefs, i - 1)
                + (IF valor >= 10 THEN valor - 9 ELSE valor)

\* The loop without `if valor >= 10: valor -= 9`
RECURSIVE total_sin_reduccion(_, _, _)
total_sin_reduccion(cedula, coefs, i) ==
    IF i = 0
    THEN 0
    ELSE total_sin_reduccion(cedula, coefs, i - 1) + cedula[i] * coefs[i]

validar_cedula_ecuador_sin_reduccion(cedula) ==
    IF ~isdigit(cedula) \/ Len(cedula) # LongCedula
    THEN FALSE
    ELSE LET provincia == cedula[1] * 10 + cedula[2]
         IN  IF ~((1 <= provincia /\ provincia <= 24) \/ provincia = 30)
             THEN FALSE
             ELSE LET total == total_sin_reduccion(cedula, coeficientes, 9)
                      residuo == total % 10
                      esperado == IF residuo = 0 THEN 0 ELSE 10 - residuo
                  IN  cedula[10] = esperado

validar_cedula_ecuador(cedula) ==
    IF ~isdigit(cedula) \/ Len(cedula) # LongCedula
    THEN FALSE
    ELSE LET provincia == cedula[1] * 10 + cedula[2]
         IN  IF ~((1 <= provincia /\ provincia <= 24) \/ provincia = 30)
             THEN FALSE
             ELSE LET total == total_modulo10(cedula, coeficientes, 9)
                      digito_verificador == cedula[10]
                      residuo == total % 10
                      esperado == IF residuo = 0 THEN 0 ELSE 10 - residuo
                  IN  digito_verificador = esperado

\* Sample identifiers: two leading digits around the region limits, three
\* free digits, four fixed digits and any last character; cut or padded to
\* the lengths LongCedula - DeltaLong .. LongCedula + DeltaLong.
CedulasBase ==
    {<<a, b, c, d, e, 0, 5, 3, 8, z>> :
        a \in {0, 1, 2, 3}, b \in {0, 1, 4, 5},
        c \in {1, 6, 9}, d \in {1, 6, 9}, e \in {1, 6, 9},
        z \in Digitos \cup {NoDigito}}

Ajustar(s, n) ==
    [i \in 1..n |-> IF i <= Len(s) THEN s[i] ELSE 0]

CedulasMuestra ==
    {Ajustar(s, n) : s \in CedulasBase,
                     n \in (LongCedula - DeltaLong)..(LongCedula + DeltaLong)}

InitCedula ==
    /\ hoy = 1
    /\ BDVacia
    /\ entrada \in [op : {"validar_cedula_ecuador"}, cedula : CedulasMuestra]
    /\ salida = NoLlamado
    /\ previa = <<>>
    /\ aliases = <<>>
    /\ SinImportacion

LlamarValidar ==
    /\ entrada.op = "validar_cedula_ecuador"
    /\ salida = NoLlamado
    /\ salida' = <<validar_cedula_ecuador(entrada.cedula)>>
    /\ UNCHANGED <<varsBD, entrada, previa, varsImp>>

\* The caller changes exactly one digit of an identifier that validated and
\* submits the result again.
MutarDigito ==
    /\ entrada.op = "validar_cedula_ecuador"
    /\ salida = <<TRUE>>
    /\ previa = <<>>
    /\ \E i \in DOMAIN entrada.cedula, d \in Digitos :
          /\ d # entrada.cedula[i]
          /\ entrada' = [entrada EXCEPT !.cedula[i] = d]
    /\ previa' = entrada.cedula
    /\ salida' = NoLlamado
    /\ UNCHANGED <<varsBD, varsImp>>

NextCedula == LlamarValidar \/ MutarDigito

SpecCedula == InitCedula /\ [][NextCedula]_vars

ValidarLlamado == entrada.op = "validar_cedula_ecuador" /\ salida # NoLlamado

\* The check digit, from the table of the doubled digits reduced by 9
Doblado == <<0, 2, 4, 6, 8, 1, 3, 5, 7, 9>>

DigitoEsperado(c) ==
    LET s == Doblado[c[1] + 1] + c[2] + Doblado[c[3] + 1] + c[4]
                + Doblado[c[5] + 1] + c[6] + Doblado[c[7] + 1] + c[8]
                + Doblado[c[9] + 1]
    IN  (10 - (s % 10)) % 10

ProvinciasValidas == (1..24) \cup {30}

-----------------------------------------------------------------------------
(* The store: manual matriculation, grade entry, course edit, maintenance  *)

\* Values the dialogs can supply
PuntajesUI == {0, 500, 1000}
UmbralesUI == {0, 700}
\* Rows of the table centros, named by their cleaned nombre
CentroA == "CENTRO ZONAL ECU 911 QUITO"
CentroB == "CENTRO LOCAL ECU 911 GALAPAGOS"
CentrosBD == {CentroA, CentroB}

\* Identifiers that pass the checksum
CedulaA == <<1, 7, 1, 0, 0, 3, 4, 0, 6, 5>>
CedulaB == <<0, 1, 0, 2, 0, 3, 0, 4, 0, 0>>
CedulaC == <<2, 4, 0, 0, 0, 0, 0, 0, 1, 0>>

PersonasIniciales ==
    <<[cedula |-> CedulaA, nombre |-> <<"ANA">>, centro_id |-> CentroA,
       correo |-> "ANA@ECU911.EC"],
      [cedula |-> CedulaB, nombre |-> <<"BELEN">>, centro_id |-> CentroB,
       correo |-> "BELEN@ECU911.EC"],
      [cedula |-> CedulaC, nombre |-> <<"CARLA">>, centro_id |-> CentroA,
       correo |-> "CARLA@ECU911.EC"]>>

CursoId == 1

\* `mat.nota_final or 0.0`
nota_o_cero(nota_final) == IF nota_final = NULL THEN 0 ELSE nota_final

\* Rows of a table that satisfy a condition
Ids(tabla) == DOMAIN tabla

\* CursoModel.cursos_activos: fecha_final >= hoy
cursos_activos(cs, hoy_) == {c \in DOMAIN cs : cs[c].fecha_final >= hoy_}

\* The evaluations of a course in `orden`, as the ids of the table
esquema_curso(evs, curso_id) ==
    {e \in DOMAIN evs : evs[e].curso_id = curso_id}

\* Sequence of the elements of a set of numbers in increasing order
RECURSIVE EnOrden(_)
EnOrden(S) ==
    IF S = {}
    THEN <<>>
    ELSE LET m == CHOOSE x \in S : \A y \in S : x <= y
         IN  <<m>> \o EnOrden(S \ {m})

\* Writes of a (key -> value) map
Poner(f, k, v) == [x \in DOMAIN f \cup {k} |-> IF x = k THEN v ELSE f[x]]

\* The recompute that ignores the stored NO REALIZO (es_abandono = False)
actualizar_estados_por_curso_sin_abandono(mats, curso_id, curso, hoy_) ==
    [i \in DOMAIN mats |->
        IF mats[i].curso_id = curso_id
        THEN [mats[i] EXCEPT !.estado =
                determinar_estado(nota_o_cero(mats[i].nota_final), curso,
                                  FALSE, hoy_)]
        ELSE mats[i]]

\* MatriculaModel.actualizar_estados_por_curso: every enrollment of the
\* course is resolved again, with es_abandono = (estado == "NO REALIZO").
actualizar_estados_por_curso(mats, curso_id, curso, hoy_) ==
    [i \in DOMAIN mats |->
        IF mats[i].curso_id = curso_id
        THEN [mats[i] EXCEPT !.estado =
                determinar_estado(nota_o_cero(mats[i].nota_final), curso,
                                  mats[i].estado = "NO REALIZO", hoy_)]
        ELSE mats[i]]

\* The query without the filter on estado
matriculas_vencidas_sin_estado(mats, cs, hoy_) ==
    {i \in DOMAIN mats : cs[mats[i].curso_id].fecha_final < hoy_}

\* The rows the maintenance query selects
matriculas_vencidas(mats, cs, hoy_) ==
    {i \in DOMAIN mats :
        /\ cs[mats[i].curso_id].fecha_final < hoy_
        /\ mats[i].estado = "EN CURSO"}

\* The sweep that stops after the first selected row
actualizar_estados_matriculas_solo_primera(mats, cs, hoy_) ==
    LET vencidas == matriculas_vencidas(mats, cs, hoy_)
    IN  [i \in DOMAIN mats |->
            IF i \in vencidas /\ \A j \in vencidas : i <= j
            THEN [mats[i] EXCEPT !.estado =
                    determinar_estado(nota_o_cero(mats[i].nota_final),
                                      cs[mats[i].curso_id], FALSE, hoy_)]
            ELSE mats[i]]

\* MatriculaModel.actualizar_estados_matriculas: the enrollments that are
\* EN CURSO in a course whose fecha_final < hoy are resolved again with
\* es_abandono = False.
actualizar_estados_matriculas(mats, cs, hoy_) ==
    [i \in DOMAIN mats |->
        IF i \in matriculas_vencidas(mats, cs, hoy_)
        THEN [mats[i] EXCEPT !.estado =
                determinar_estado(nota_o_cero(mats[i].nota_final),
                                  cs[mats[i].curso_id], FALSE, hoy_)]
        ELSE mats[i]]

\* `if mat.estado != nuevo: ... c += 1`, kept as "some row was changed"
HuboCambios(antes, despues) ==
    IF \E i \in DOMAIN antes : antes[i].estado # despues[i].estado
    THEN 1
    ELSE 0

InitBD ==
    /\ hoy = 1
    /\ cursos \in [{CursoId} -> [nota_aprobacion : {700},
                                 fecha_final : Dias]]
    /\ evaluaciones = <<[curso_id |-> CursoId, porcentaje |-> 100]>>
    /\ personas = SubSeq(PersonasIniciales, 1, MaxPersonas)
    /\ matriculas = <<>>
    /\ calificaciones = <<>>
    /\ ultima_op = "otra"
    /\ cambiados = 0

Init == InitBD /\ SinFuncion /\ aliases = <<>> /\ SinImportacion

\* ControladorEstudiantes.abrir_dialogo_matricula with the dict built by
\* DialogoMatricula.validar_y_aceptar: the row is created with persona_id,
\* curso_id and centro_id only, so estado takes the column default
\* "En curso" and nota_final is NULL.
Matricular(p, c) ==
    /\ p \in DOMAIN personas
    /\ c \in cursos_activos(cursos, hoy)
    /\ ~\E i \in DOMAIN matriculas :
            matriculas[i].persona_id = p /\ matriculas[i].curso_id = c
    /\ matriculas' = Append(matriculas,
            [persona_id |-> p, curso_id |-> c,
             centro_id |-> personas[p].centro_id,
             nota_final |-> NULL, estado |-> "En curso"])
    /\ ultima_op' = "otra"
    /\ cambiados' = 0
    /\ UNCHANGED <<hoy, cursos, evaluaciones, personas, calificaciones>>
    /\ UNCHANGED <<varsFn, varsImp>>

\* DialogoNotas.guardar_cambios for enrollment m, with the withdrawal box
\* es_abandono and the spin box values `valores` (evaluation id -> score).
GuardarNotas(m, es_abandono, valores) ==
    LET evs == esquema_curso(evaluaciones, matriculas[m].curso_id)
        orden == EnOrden(evs)
        lista_notas == [k \in DOMAIN orden |->
                          [puntaje |-> valores[orden[k]],
                           peso |-> evaluaciones[orden[k]].porcentaje]]
        promedios == IF es_abandono
                     THEN {0}
                     ELSE calcular_nota_ponderada(lista_notas)
        curso == cursos[matriculas[m].curso_id]
    IN  /\ evs # {}
        /\ DOMAIN valores = evs
        /\ \E nuevo_promedio \in promedios :
              LET nuevo_estado == determinar_estado(nuevo_promedio, curso,
                                                    es_abandono, hoy)
              IN  /\ matriculas' = [matriculas EXCEPT
                                      ![m].nota_final = nuevo_promedio,
                                      ![m].estado = nuevo_estado]
                  /\ cambiados' = 0
        /\ calificaciones' =
              [k \in DOMAIN calificaciones \cup {<<m, e>> : e \in evs} |->
                  IF k[1] = m /\ k[2] \in evs
                  THEN (IF es_abandono THEN 0 ELSE valores[k[2]])
                  ELSE calificaciones[k]]
        /\ ultima_op' = "otra"
        /\ UNCHANGED <<hoy, cursos, evaluaciones, personas>>
        /\ UNCHANGED <<varsFn, varsImp>>

\* ControladorCursoDetalle.guardar_cambios: the course is updated with the
\* form values and actualizar_estados_por_curso runs on the updated course.
GuardarCambiosCurso(c, nota_aprobacion, fecha_final) ==
    LET curso == [cursos[c] EXCEPT !.nota_aprobacion = nota_aprobacion,
                                   !.fecha_final = fecha_final]
        nuevas == actualizar_estados_por_curso(matriculas, c, curso, hoy)
    IN  /\ c \in DOMAIN cursos
        /\ cursos' = [cursos EXCEPT ![c] = curso]
        /\ matriculas' = nuevas
        /\ cambiados' = HuboCambios(matriculas, nuevas)
        /\ ultima_op' = "actualizar_estados_por_curso"
        /\ UNCHANGED <<hoy, evaluaciones, personas, calificaciones>>
        /\ UNCHANGED <<varsFn, varsImp>>

\* Names of the sweep in ultima_op: the first run after another step, and a
\* run that directly follows a run of the sweep.
Barrido == "actualizar_estados_matriculas"
BarridoRepetido == "actualizar_estados_matriculas, repetido"

\* main(): the maintenance sweep that runs when the program starts.
Mantenimiento ==
    LET nuevas == actualizar_estados_matriculas(matriculas, cursos, hoy)
        repetido == ultima_op \in {Barrido, BarridoRepetido}
    IN  /\ matriculas' = nuevas
        /\ cambiados' = IF repetido /\ cambiados = 1
                        THEN 1
                        ELSE HuboCambios(matriculas, nuevas)
        /\ ultima_op' = IF repetido THEN BarridoRepetido ELSE Barrido
        /\ UNCHANGED <<hoy, cursos, evaluaciones, personas, calificaciones>>
        /\ UNCHANGED <<varsFn, varsImp>>

\* The calendar advances one day.
PasarDia ==
    /\ hoy < MaxDia
    /\ hoy' = hoy + 1
    /\ ultima_op' = "otra"
    /\ cambiados' = 0
    /\ UNCHANGED <<cursos, evaluaciones, personas, matriculas, calificaciones>>
    /\ UNCHANGED <<varsFn, varsImp>>

Next ==
    \/ \E p \in DOMAIN personas, c \in DOMAIN cursos : Matricular(p, c)
    \/ \E m \in DOMAIN matriculas, es_abandono \in BOOLEAN :
          \E valores \in [esquema_curso(evaluaciones, matriculas[m].curso_id)
                            -> PuntajesUI] :
              GuardarNotas(m, es_abandono, valores)
    \/ \E c \in DOMAIN cursos, n \in UmbralesUI, f \in Dias :
          GuardarCambiosCurso(c, n, f)
    \/ Mantenimiento
    \/ PasarDia

Spec == Init /\ [][Next]_vars

\* C5: a recompute after a change of the course's parameters leaves in
\* NO REALIZO every enrollment of the course that was NO REALIZO before it.
C5_AbandonoPersistente ==
    [][ultima_op' = "actualizar_estados_por_curso" =>
        \A i \in DOMAIN matriculas :
            matriculas[i].estado = "NO REALIZO"
                => matriculas'[i].estado = "NO REALIZO"]_vars

\* A recompute has run on a NO REALIZO enrollment whose grade reaches the
\* (lowered) threshold, and the enrollment is still NO REALIZO.
C5_Witness ==
    /\ ultima_op = "actualizar_estados_por_curso"
    /\ \E i \in DOMAIN matriculas :
          /\ matriculas[i].estado = "NO REALIZO"
          /\ nota_o_cero(matriculas[i].nota_final)
                >= cursos[matriculas[i].curso_id].nota_aprobacion

\* C6: a maintenance sweep that directly follows a maintenance sweep (same
\* day, nothing in between) changes no enrollment.
C6_MantenimientoIdempotente ==
    [][ultima_op' = BarridoRepetido => matriculas' = matriculas]_vars

\* The sweep has run twice in succession and the first run changed some
\* enrollment.
C6_Witness ==
    /\ ultima_op = BarridoRepetido
    /\ cambiados = 1

-----------------------------------------------------------------------------
(* Sanitizer: cleaning of the cells of a spreadsheet row *)

\* Characters of an identifier cell besides the digits 0..9
Guion == 11
Punto == 12
Coma == 13

\* Letters of the text 'nan' in an identifier cell: n, a and the capital N
LetraN == 14
LetraA == 15
LetraNMayus == 16

\* str.lower
lower(c) == [i \in DOMAIN c |-> IF c[i] = LetraNMayus THEN LetraN ELSE c[i]]

\* The text 'nan'
TextoNan == <<LetraN, LetraA, LetraN>>

\* str.replace('.0', ''): every occurrence, left to right
RECURSIVE quitar_punto_cero(_)
quitar_punto_cero(c) ==
    IF c = <<>>
    THEN <<>>
    ELSE IF Len(c) >= 2 /\ c[1] = Punto /\ c[2] = 0
    THEN quitar_punto_cero(SubSeq(c, 3, Len(c)))
    ELSE <<c[1]>> \o quitar_punto_cero(Tail(c))

\* An empty cell (pandas reads it as NaN) of an identifier or grade column
CeldaVacia == <<>>

\* Sanitizer.limpiar_cedula: an empty cell (NaN) gives ""; otherwise '.0' is
\* removed, then '-', '.' and ','.
limpiar_cedula(valor) ==
    IF valor = CeldaVacia
    THEN <<>>
    ELSE SelectSeq(quitar_punto_cero(valor),
                   LAMBDA x : x \notin {Guion, Punto, Coma})

\* Cells of a grade column: CeldaVacia, a number n, written <<n>>, or a
\* text: "-" (CeldaGuion), blanks (CeldaBlanco), "nan" (CeldaTextoNan),
\* "None" (CeldaNone) and a text that is not a number (CeldaTexto)
TextoGuion == 0 - 2
CeldaGuion == <<TextoGuion>>
CeldaBlanco == <<TextoGuion - 1>>
CeldaTextoNan == <<TextoGuion - 2>>
CeldaNone == <<TextoGuion - 3>>
CeldaTexto == <<TextoGuion - 4>>

\* Sanitizer.limpiar_nota: NaN and the texts "-", "", "nan", "None" give
\* 0.0, a text float() rejects gives 0.0, a number gives itself
limpiar_nota(valor) ==
    IF valor = CeldaVacia
    THEN 0
    ELSE IF valor \in {CeldaGuion, CeldaBlanco, CeldaTextoNan, CeldaNone}
    THEN 0
    ELSE IF valor = CeldaTexto
    THEN 0
    ELSE valor[1]

\* `not pd.isna(raw) and str(raw).strip() not in ["-", "", "nan"]`
celda_con_nota(raw) ==
    raw # CeldaVacia /\ raw \notin {CeldaGuion, CeldaBlanco, CeldaTextoNan}

\* Sanitizer.limpiar_texto on the texts of the sample: strip, accents
\* removed, upper case
TablaLimpieza ==
    {<<"Ana", "ANA">>, <<"Ana Maria", "ANA MARIA">>, <<"Pérez", "PEREZ">>,
     <<"Xavier", "XAVIER">>, <<"Carla", "CARLA">>, <<"Belén", "BELEN">>,
     <<"Planta Central", "PLANTA CENTRAL">>,
     <<"Centro Local ECU 911 San Cristóbal",
       "CENTRO LOCAL ECU 911 SAN CRISTOBAL">>,
     <<"centro zonal ecu 911 quito", "CENTRO ZONAL ECU 911 QUITO">>,
     <<"Centro X", "CENTRO X">>}

limpiar_texto(texto) ==
    IF texto = ""
    THEN ""
    ELSE (CHOOSE par \in TablaLimpieza : par[1] = texto)[2]

\* config.mappings.CORRECCIONES_CENTROS
CORRECCIONES_CENTROS ==
    {<<"CENTRO LOCAL ECU 911 SAN CRISTOBAL", "CENTRO LOCAL ECU 911 GALAPAGOS">>,
     <<"PLANTA CENTRAL", "CENTRO ZONAL ECU 911 QUITO">>,
     <<"CIUDADANO", "CENTRO ZONAL ECU 911 QUITO">>}

\* CORRECCIONES_CENTROS.get(centro_raw, centro_raw)
corregir_centro(centro_raw) ==
    IF \E par \in CORRECCIONES_CENTROS : par[1] = centro_raw
    THEN (CHOOSE par \in CORRECCIONES_CENTROS : par[1] = centro_raw)[2]
    ELSE centro_raw

\* str(row.get(col, '')).strip(): an empty cell (NaN, here "") reads as the
\* text 'nan'
texto_correo(valor) == IF valor = "" THEN "nan" ELSE valor

-----------------------------------------------------------------------------
(* The spreadsheets of the model *)

MaxFilas == 2

\* An identifier that fails the checksum (CedulaA with another last digit)
CedulaX == <<1, 7, 1, 0, 0, 3, 4, 0, 6, 4>>

CeldaAGuion == <<1, 7, 1, 0, 0, 3, 4, 0, 6, Guion, 5>>
CeldaAFloat == <<1, 7, 1, 0, 0, 3, 4, 0, 6, 5, Punto, 0>>
CeldaXGuion == <<1, 7, 1, 0, 0, 3, 4, 0, 6, Guion, 4>>

\* The text "N-an", which cleans to "Nan"
CeldaNan == <<LetraNMayus, Guion, LetraA, LetraN>>

Fila(cedula, nombre, apellido, centro, correo_, nota) ==
    [cedula |-> cedula, nombre |-> nombre, apellido |-> apellido,
     centro |-> centro, correo |-> correo_, notas |-> <<nota>>]

FilasMuestra ==
    {Fila(CedulaA, "Ana", "Pérez", "Planta Central", "ana@ecu911.ec", <<900>>),
     Fila(CeldaAGuion, "Ana Maria", "Pérez",
          "Centro Local ECU 911 San Cristóbal", "ana@ecu911.ec", <<500>>),
     Fila(CeldaAFloat, "Ana", "", "Centro X", "ana@ecu911.ec", <<900>>),
     Fila(CedulaX, "Xavier", "", "Planta Central", "xavier@ecu911.ec",
          <<900>>),
     Fila(CeldaXGuion, "Xavier", "Pérez", "centro zonal ecu 911 quito",
          "", CeldaVacia),
     Fila(CeldaVacia, "Ana", "", "Planta Central", "", <<900>>),
     Fila(CeldaNan, "Carla", "", "Planta Central", "", <<900>>),
     Fila(CedulaC, "Carla", "", "Planta Central", "ana@ecu911.ec", <<900>>),
     Fila(CedulaB, "Belén", "", "Planta Central", "belen@ecu911.ec",
          CeldaGuion)}

Archivos == UNION {[1..n -> FilasMuestra] : n \in 0..MaxFilas}

-----------------------------------------------------------------------------
(* Validator: from the rows of the file to the two buckets *)

\* A dictionary of aliases that is always empty
obtener_diccionario_aliases_vacio(als, pers) == <<>>

\* PersistenceService.obtener_diccionario_aliases: alias_valor -> cedula of
\* the person, for the aliases whose person exists; a later alias row with
\* the same alias_valor replaces an earlier one.
obtener_diccionario_aliases(als, pers) ==
    LET vivos == {i \in DOMAIN als : als[i].persona_id \in DOMAIN pers}
        ultimo(k) == CHOOSE i \in vivos :
                        /\ als[i].alias_valor = k
                        /\ \A j \in vivos : als[j].alias_valor = k => j <= i
    IN  [k \in {als[i].alias_valor : i \in vivos} |->
            pers[als[ultimo(k)].persona_id].cedula]

\* Validator._procesar_notas_fila: the list handed to
\* calcular_nota_ponderada, one entry per linked evaluation
lista_para_calculo(row, mapa, evs) ==
    LET orden == EnOrden(mapa)
    IN  [k \in DOMAIN orden |->
            [puntaje |-> limpiar_nota(row.notas[orden[k]]),
             peso |-> evs[orden[k]].porcentaje]]

\* DetalleCalificacion of every linked evaluation
detalles_fila(row, mapa) ==
    LET orden == EnOrden(mapa)
    IN  [k \in DOMAIN orden |->
            [evaluacion_id |-> orden[k],
             puntaje |-> limpiar_nota(row.notas[orden[k]])]]

\* todo_vacio: no linked cell holds a grade (true when nothing is linked)
todo_vacio(row, mapa) == \A e \in mapa : ~celda_con_nota(row.notas[e])

\* f"{apellido} {nombre}".strip() or "SIN NOMBRE", as the sequence of its
\* words
nombre_completo(apellido, nombre) ==
    LET partes == SelectSeq(<<apellido, nombre>>, LAMBDA t : t # "")
    IN  IF partes = <<>> THEN <<"SIN NOMBRE">> ELSE partes

\* The RegistroImportado that Validator.procesar builds from row number i
\* (fila = idx + 2 with idx counted from 0), promedio_final being the value
\* calcular_nota_ponderada returned for the row.
RegistroImportado(i, row, promedio_final, cache_alias, curso, mapa, hoy_) ==
    LET cedula_limpia == limpiar_cedula(row.cedula)
        es_alias == cedula_limpia \in DOMAIN cache_alias
        cedula_final == IF es_alias
                        THEN cache_alias[cedula_limpia]
                        ELSE cedula_limpia
        flag_no_realizo == todo_vacio(row, mapa)
    IN  [fila_excel |-> i + 1,
         cedula_limpia |-> cedula_final,
         cedula_original |-> cedula_limpia,
         nombre_limpio |-> nombre_completo(limpiar_texto(row.apellido),
                                           limpiar_texto(row.nombre)),
         centro_nombre |-> corregir_centro(limpiar_texto(row.centro)),
         correo |-> texto_correo(row.correo),
         nota_final |-> promedio_final,
         estado_sugerido |-> determinar_estado(promedio_final, curso,
                                               flag_no_realizo, hoy_),
         detalles_notas |-> detalles_fila(row, mapa),
         es_alias_conocido |-> es_alias,
         es_valida_algoritmo |-> validar_cedula_ecuador(cedula_final),
         es_no_realizo |-> flag_no_realizo]

\* `if not cedula_limpia or cedula_limpia.lower() == 'nan': continue`
se_omite(cedula_limpia) ==
    cedula_limpia = <<>> \/ lower(cedula_limpia) = TextoNan

\* Validator.procesar with the test of the checksum alone
procesar_sin_alias(df, promedios, cache_alias, curso, mapa, hoy_) ==
    LET regs == [i \in DOMAIN df |->
                    RegistroImportado(i, df[i], promedios[i], cache_alias,
                                      curso, mapa, hoy_)]
        filas == [i \in DOMAIN df |-> i]
        examinada(i) == ~se_omite(limpiar_cedula(df[i].cedula))
        valida(i) == validar_cedula_ecuador(limpiar_cedula(df[i].cedula))
        es_valido(i) == examinada(i) /\ valida(i)
        a_revision(i) == examinada(i) /\ ~valida(i)
        elegir(idx) == [k \in DOMAIN idx |-> regs[idx[k]]]
    IN  [validos |-> elegir(SelectSeq(filas, es_valido)),
         revision |-> elegir(SelectSeq(filas, a_revision))]

\* Validator.procesar: rows whose cleaned identifier is empty or 'nan' are
\* skipped; a row is valid when it is a known alias or passes the checksum.
\* Each bucket holds its rows in spreadsheet order.
procesar(df, promedios, cache_alias, curso, mapa, hoy_) ==
    LET regs == [i \in DOMAIN df |->
                    RegistroImportado(i, df[i], promedios[i], cache_alias,
                                      curso, mapa, hoy_)]
        filas == [i \in DOMAIN df |-> i]
        examinada(i) == ~se_omite(limpiar_cedula(df[i].cedula))
        valida(i) == regs[i].es_alias_conocido \/ regs[i].es_valida_algoritmo
        es_valido(i) == examinada(i) /\ valida(i)
        a_revision(i) == examinada(i) /\ ~valida(i)
        elegir(idx) == [k \in DOMAIN idx |-> regs[idx[k]]]
    IN  [validos |-> elegir(SelectSeq(filas, es_valido)),
         revision |-> elegir(SelectSeq(filas, a_revision))]

\* GestorImportacion.ejecutar: the user picks the file, the (only) active
\* course and the evaluations linked to grade columns; both report lists are
\* reset and the analysis worker is started.
Ejecutar(arch, mapa) ==
    /\ imp_pc = "inactivo"
    /\ CursoId \in cursos_activos(cursos, hoy)
    /\ mapa \subseteq esquema_curso(evaluaciones, CursoId)
    /\ archivo' = arch
    /\ mapa_actividades' = mapa
    /\ reporte_errores' = <<>>
    /\ lista_omitidos' = <<>>
    /\ imp_pc' = "analizando"
    /\ UNCHANGED <<varsBD, varsFn, aliases, validos, revision, guion,
                   lista_final, resultado, cache_estudiantes,
                   cache_matriculas, falla, aprendidos>>

\* WorkerProcesamiento.run: the alias dictionary is read and the validator
\* splits the rows; the signal `finished` carries both lists.
WorkerProcesamientoRun ==
    /\ imp_pc = "analizando"
    /\ LET dict_aliases == obtener_diccionario_aliases(aliases, personas)
           opciones(i) == calcular_nota_ponderada(
                              lista_para_calculo(archivo[i], mapa_actividades,
                                                 evaluaciones))
       IN  \E promedios \in [DOMAIN archivo ->
                                UNION {opciones(i) : i \in DOMAIN archivo}] :
              /\ \A i \in DOMAIN archivo : promedios[i] \in opciones(i)
              /\ LET r == procesar(archivo, promedios, dict_aliases,
                                   cursos[CursoId], mapa_actividades, hoy)
                 IN  /\ validos' = r.validos
                     /\ revision' = r.revision
    /\ imp_pc' = "analizado"
    /\ UNCHANGED <<varsBD, varsFn, aliases, archivo, mapa_actividades, guion,
                   lista_final, lista_omitidos, reporte_errores, resultado,
                   cache_estudiantes, cache_matriculas, falla, aprendidos>>

-----------------------------------------------------------------------------
(* GestorImportacion._al_terminar_analisis: dedup, review, final list *)

\* Notes of reporte_errores and of ResultadoProceso.errores
Nota(tipo, fila, cedula) == [tipo |-> tipo, fila |-> fila, cedula |-> cedula]

\* A dict of registros keyed by cedula_limpia, kept as the sequence of its
\* values in insertion order
Claves(mapa) == {mapa[k].cedula_limpia : k \in DOMAIN mapa}

Valor(mapa, cedula) ==
    mapa[CHOOSE k \in DOMAIN mapa : mapa[k].cedula_limpia = cedula]

\* mapa[reg.cedula_limpia] = reg: an existing key keeps its position
Asignar(mapa, reg) ==
    IF reg.cedula_limpia \in Claves(mapa)
    THEN [k \in DOMAIN mapa |->
            IF mapa[k].cedula_limpia = reg.cedula_limpia THEN reg ELSE mapa[k]]
    ELSE Append(mapa, reg)

RECURSIVE AsignarTodos(_, _)
AsignarTodos(mapa, regs) ==
    IF regs = <<>>
    THEN mapa
    ELSE AsignarTodos(Asignar(mapa, Head(regs)), Tail(regs))

\* The dedup loop with the earlier row kept instead of the later one
RECURSIVE deduplicar_conserva_primera(_)
deduplicar_conserva_primera(regs) ==
    IF regs = <<>>
    THEN [mapa_maestro |-> <<>>, reporte |-> <<>>]
    ELSE LET antes == deduplicar_conserva_primera(
                          SubSeq(regs, 1, Len(regs) - 1))
             reg == regs[Len(regs)]
         IN  IF reg.cedula_limpia \in Claves(antes.mapa_maestro)
             THEN [mapa_maestro |-> antes.mapa_maestro,
                   reporte |-> Append(antes.reporte,
                        Nota("Duplicado interno", reg.fila_excel,
                             reg.cedula_limpia))]
             ELSE [mapa_maestro |-> Append(antes.mapa_maestro, reg),
                   reporte |-> antes.reporte]

\* FASE 1: `for reg in validos`: a key already present adds the note
\* "Duplicado interno: <cedula> (Se usa fila <n>)", and the row replaces the
\* earlier one.
RECURSIVE deduplicar(_)
deduplicar(regs) ==
    IF regs = <<>>
    THEN [mapa_maestro |-> <<>>, reporte |-> <<>>]
    ELSE LET antes == deduplicar(SubSeq(regs, 1, Len(regs) - 1))
             reg == regs[Len(regs)]
         IN  [mapa_maestro |-> Asignar(antes.mapa_maestro, reg),
              reporte |->
                 IF reg.cedula_limpia \in Claves(antes.mapa_maestro)
                 THEN Append(antes.reporte,
                        Nota("Duplicado interno", reg.fila_excel,
                             reg.cedula_limpia))
                 ELSE antes.reporte]

\* The answer that ends the `while True` of one row under review: the row is
\* omitted, or a corrected identifier is entered and, when it is a key of
\* the dedup map, one of the two buttons that leave the loop is pressed.
\* Answers that only repeat the dialog (invalid identifier, identifier given
\* to another corrected row, Cancelar, refusing the merge) end in one of
\* these.  `fusionar` is the answer Yes to the question of
\* _validar_existencia_bd.
CedulasCorreccion == {CedulaA, CedulaB, CedulaC}

Decisiones ==
    [accion : {"omitir"}, nueva_ced : {<<>>}, conflicto : {"ninguno"},
     fusionar : {FALSE}]
        \cup [accion : {"corregir"}, nueva_ced : CedulasCorreccion,
              conflicto : {"ninguno", "mantener", "sobrescribir"},
              fusionar : BOOLEAN]

\* The check of the store that never asks
_validar_existencia_bd_sin_pregunta(cache, cedula, fusionar) == TRUE

\* GestorImportacion._validar_existencia_bd: True when the identifier is not
\* in cache_estudiantes, otherwise the answer to the merge question
_validar_existencia_bd(cache, cedula, fusionar) ==
    cedula \in DOMAIN cache => fusionar

\* GestorImportacion._resolver_revisiones_interactivas with the answers
\* `g` and the cache of people that cargar_caches loaded; `posible` tells
\* whether the dialogs allow these answers (the merge question is asked, and
\* can be answered Yes, only for an identifier of the cache that got past
\* the conflict box).
RECURSIVE _resolver_revisiones_interactivas(_, _, _, _)
_resolver_revisiones_interactivas(lista_revision, mapa_validos, g, cache) ==
    IF lista_revision = <<>>
    THEN [aceptados |-> <<>>, omitidos |-> <<>>, reporte |-> <<>>,
          posible |-> TRUE]
    ELSE LET n == Len(lista_revision)
             antes == _resolver_revisiones_interactivas(
                          SubSeq(lista_revision, 1, n - 1), mapa_validos, g,
                          cache)
             reg == lista_revision[n]
             d == g[n]
             en_validos == d.nueva_ced \in Claves(mapa_validos)
         IN  IF d.accion = "omitir"
             THEN [antes EXCEPT
                     !.omitidos = Append(@, reg),
                     !.reporte = Append(@, Nota("Omitido por usuario",
                                    reg.fila_excel, reg.cedula_original))]
             ELSE IF \/ ~validar_cedula_ecuador(d.nueva_ced)
                     \/ d.nueva_ced \in Claves(antes.aceptados)
                     \/ en_validos # (d.conflicto # "ninguno")
                     \/ d.fusionar /\ d.conflicto = "mantener"
                     \/ d.fusionar /\ d.nueva_ced \notin DOMAIN cache
             THEN [antes EXCEPT !.posible = FALSE]
             ELSE IF d.conflicto = "mantener"
             THEN [antes EXCEPT
                     !.reporte = Append(@, Nota("Fusión", reg.fila_excel,
                                                d.nueva_ced))]
             ELSE IF ~_validar_existencia_bd(cache, d.nueva_ced, d.fusionar)
             THEN [antes EXCEPT !.posible = FALSE]
             ELSE [antes EXCEPT
                     !.aceptados = Append(@, [reg EXCEPT
                                        !.cedula_limpia = d.nueva_ced])]

\* PersistenceService.cargar_caches: people by identifier, the enrollments
\* of the course by person
cargar_cache_estudiantes(pers) ==
    [c \in {pers[i].cedula : i \in DOMAIN pers} |->
        CHOOSE i \in DOMAIN pers : pers[i].cedula = c]

cargar_cache_matriculas(mats, curso_id) ==
    LET del_curso == {m \in DOMAIN mats : mats[m].curso_id = curso_id}
    IN  [p \in {mats[m].persona_id : m \in del_curso} |->
            CHOOSE m \in del_curso :
                /\ mats[m].persona_id = p
                /\ \A o \in del_curso : mats[o].persona_id = p => m <= o]

\* _al_terminar_analisis(validos, revision, curso) with the answers `g` the
\* user gives in the review dialogs.
AlTerminarAnalisis(g) ==
    /\ imp_pc = "analizado"
    /\ IF validos = <<>> /\ revision = <<>>
       THEN /\ g = <<>>
            /\ imp_pc' = "sin registros"
            /\ UNCHANGED <<guion, lista_final, lista_omitidos,
                           reporte_errores, cache_estudiantes,
                           cache_matriculas>>
       ELSE LET fase1 == deduplicar(validos)
                fase2 == _resolver_revisiones_interactivas(
                             revision, fase1.mapa_maestro, g,
                             cargar_cache_estudiantes(personas))
                lista_final_unica == AsignarTodos(fase1.mapa_maestro,
                                                  fase2.aceptados)
            IN  /\ DOMAIN g = DOMAIN revision
                /\ fase2.posible
                /\ cache_estudiantes' = cargar_cache_estudiantes(personas)
                /\ cache_matriculas' =
                      cargar_cache_matriculas(matriculas, CursoId)
                /\ reporte_errores' =
                      reporte_errores \o fase1.reporte \o fase2.reporte
                /\ lista_omitidos' = lista_omitidos \o fase2.omitidos
                /\ guion' = g
                /\ lista_final' = lista_final_unica
                /\ imp_pc' = IF lista_final_unica = <<>>
                             THEN "cancelado"
                             ELSE "guardando"
    /\ UNCHANGED <<varsBD, varsFn, aliases, archivo, mapa_actividades,
                   validos, revision, resultado, falla, aprendidos>>

-----------------------------------------------------------------------------
(* PersistenceService.guardar_lote *)

\* The persistence calls of one iteration that may raise: the write of the
\* person (create or update), of the alias, of the enrollment (create or
\* update) and of the grade details
Pasos == {"persona", "alias", "matricula", "calificacion"}

\* A cache of centers that finds whatever name it is asked for
centro_en_cache_siempre(centro_nombre) == TRUE

\* `self.cache_centros.get(reg.centro_nombre)` finds a center
centro_en_cache(centro_nombre) == centro_nombre \in CentrosBD

\* `0.0 if estado_final == "NO REALIZO" else reg.nota_final`
nota_final_bd(estado_final, nota_final) ==
    IF estado_final = "NO REALIZO" THEN 0 ELSE nota_final

\* `if estado_final == "NO REALIZO": for d in notas_a_guardar: d.puntaje = 0.0`
puntaje_a_guardar(estado_final, puntaje) ==
    IF estado_final = "NO REALIZO" THEN 0 ELSE puntaje

\* A cache of enrollments that never finds one
matricula_en_cache_nunca(cache, est) == FALSE

\* `self.cache_matriculas.get(est.id)` finds an enrollment
matricula_en_cache(cache, est) == est \in DOMAIN cache

\* The update of an existing person that also takes the name of the sheet
persona_actualizada_con_nombre(persona, reg) ==
    [persona EXCEPT !.centro_id = reg.centro_nombre,
                    !.nombre = reg.nombre_limpio]

\* `self.model_persona.update(est.id, {"centro_id": centro.id})`: the only
\* column of an existing person that the commit writes
persona_actualizada(persona, reg) ==
    [persona EXCEPT !.centro_id = reg.centro_nombre]

\* One iteration of `for reg in registros`.  e holds the tables, the caches,
\* the ResultadoProceso and the call that raises (e.falla).
\* BaseCRUDModel.create raises IntegrityError when cedula or correo of the
\* new person is already in the table.  An exception of _registrar_alias or
\* of a grade detail is swallowed by the try of that method; every other
\* exception of the iteration is caught by the try of the loop, noted and
\* counted as omitted, and the writes made before it stay (each create and
\* update commits in a session of its own).
guardar_registro(e, reg, curso_id, curso, hoy_) ==
    LET omitido(tipo) ==
            [e.resultado EXCEPT
                !.errores = Append(@, Nota(tipo, reg.fila_excel,
                                           reg.cedula_limpia)),
                !.registros_omitidos = @ + 1]
        raises(paso) == e.falla.fila = reg.fila_excel /\ e.falla.paso = paso
        existe == reg.cedula_limpia \in DOMAIN e.cache_estudiantes
        IntegrityError ==
            \E p \in DOMAIN e.personas :
                \/ e.personas[p].cedula = reg.cedula_limpia
                \/ e.personas[p].correo = reg.correo
        est == IF existe
               THEN e.cache_estudiantes[reg.cedula_limpia]
               ELSE Len(e.personas) + 1
        actualiza_centro ==
            existe /\ e.personas[est].centro_id # reg.centro_nombre
        personas1 ==
            IF existe
            THEN [e.personas EXCEPT
                    ![est] = persona_actualizada(e.personas[est], reg)]
            ELSE Append(e.personas,
                    [cedula |-> reg.cedula_limpia,
                     nombre |-> reg.nombre_limpio,
                     centro_id |-> reg.centro_nombre,
                     correo |-> reg.correo])
        aliases1 ==
            IF /\ reg.cedula_original # reg.cedula_limpia
               /\ ~raises("alias")
               /\ ~\E a \in DOMAIN e.aliases :
                      e.aliases[a].alias_valor = reg.cedula_original
            THEN Append(e.aliases, [alias_valor |-> reg.cedula_original,
                                    persona_id |-> est])
            ELSE e.aliases
        e1 == [e EXCEPT
                 !.personas = personas1,
                 !.aliases = aliases1,
                 !.cache_estudiantes = Poner(@, reg.cedula_limpia, est),
                 !.resultado.nuevos_estudiantes =
                     IF existe THEN @ ELSE @ + 1]
        estado_final ==
            determinar_estado(reg.nota_final, curso,
                reg.es_no_realizo \/ reg.estado_sugerido = "NO REALIZO", hoy_)
        hay_matricula == matricula_en_cache(e.cache_matriculas, est)
        matricula == IF hay_matricula
                     THEN e.cache_matriculas[est]
                     ELSE Len(e.matriculas) + 1
        matriculas1 ==
            IF hay_matricula
            THEN [e.matriculas EXCEPT
                    ![matricula].nota_final =
                        nota_final_bd(estado_final, reg.nota_final),
                    ![matricula].estado = estado_final,
                    ![matricula].centro_id = reg.centro_nombre]
            ELSE Append(e.matriculas,
                    [persona_id |-> est, curso_id |-> curso_id,
                     centro_id |-> reg.centro_nombre,
                     nota_final |->
                        nota_final_bd(estado_final, reg.nota_final),
                     estado |-> estado_final])
        evs == IF raises("calificacion")
               THEN {}
               ELSE {reg.detalles_notas[k].evaluacion_id :
                        k \in DOMAIN reg.detalles_notas}
        puntaje(ev) ==
            puntaje_a_guardar(estado_final,
                reg.detalles_notas[
                    CHOOSE k \in DOMAIN reg.detalles_notas :
                        reg.detalles_notas[k].evaluacion_id = ev].puntaje)
        calificaciones1 ==
            [k \in DOMAIN e.calificaciones \cup {<<matricula, ev>> : ev \in evs}
                |-> IF k[1] = matricula /\ k[2] \in evs
                    THEN puntaje(k[2])
                    ELSE e.calificaciones[k]]
        e1_omitido ==
            [e1 EXCEPT !.resultado.errores =
                            Append(@, Nota("Error crítico BD", reg.fila_excel,
                                           reg.cedula_limpia)),
                       !.resultado.registros_omitidos = @ + 1]
    IN  IF ~centro_en_cache(reg.centro_nombre)
        THEN [e EXCEPT !.resultado = omitido("Centro no existe")]
        ELSE IF \/ ~existe /\ (IntegrityError \/ raises("persona"))
                \/ actualiza_centro /\ raises("persona")
        THEN [e EXCEPT !.resultado = omitido("Error crítico BD")]
        ELSE IF estado_final = "TypeError" \/ raises("matricula")
        THEN e1_omitido
        ELSE [e1 EXCEPT
                !.matriculas = matriculas1,
                !.calificaciones = calificaciones1,
                !.cache_matriculas = Poner(@, est, matricula),
                !.resultado.matriculas_nuevas =
                    IF hay_matricula THEN @ ELSE @ + 1,
                !.resultado.matriculas_actualizadas =
                    IF hay_matricula THEN @ + 1 ELSE @]

\* guardar_lote counting the rows of an aborted batch as omitted
RECURSIVE guardar_lote_cuenta_omitidos(_, _, _, _, _)
guardar_lote_cuenta_omitidos(e, registros, curso_id, cs, hoy_) ==
    IF curso_id \notin DOMAIN cs
    THEN [e EXCEPT !.resultado.errores =
                      Append(@, Nota("El curso no existe", 0, <<>>)),
                   !.resultado.registros_omitidos = Len(registros)]
    ELSE IF registros = <<>>
    THEN e
    ELSE guardar_registro(
            guardar_lote_cuenta_omitidos(
                e, SubSeq(registros, 1, Len(registros) - 1),
                curso_id, cs, hoy_),
            registros[Len(registros)], curso_id, cs[curso_id], hoy_)

\* guardar_lote: the course is read; without it the batch ends with the one
\* note "El curso no existe"; otherwise the rows are committed one by one in
\* the order of the list.
RECURSIVE guardar_lote(_, _, _, _, _)
guardar_lote(e, registros, curso_id, cs, hoy_) ==
    IF curso_id \notin DOMAIN cs
    THEN [e EXCEPT !.resultado.errores =
                      Append(@, Nota("El curso no existe", 0, <<>>))]
    ELSE IF registros = <<>>
    THEN e
    ELSE guardar_registro(
            guardar_lote(e, SubSeq(registros, 1, Len(registros) - 1),
                         curso_id, cs, hoy_),
            registros[Len(registros)], curso_id, cs[curso_id], hoy_)

\* reg was corrected in review (it is not a known alias and its identifier
\* is no longer the one of the sheet) and its commit left no error note in
\* the result res
corregida_y_guardada(reg, res) ==
    /\ ~reg.es_alias_conocido
    /\ reg.cedula_original # reg.cedula_limpia
    /\ \A n \in DOMAIN res.errores : res.errores[n].fila # reg.fila_excel

\* WorkerGuardado.run: guardar_lote(lista_final_unica, curso.id) with the
\* caches that _al_terminar_analisis loaded, while the persistence call `f`
\* raises; `finished` carries the result.
Guardar(f) ==
    /\ imp_pc = "guardando"
    /\ LET e == guardar_lote(
                    [personas |-> personas, aliases |-> aliases,
                     matriculas |-> matriculas,
                     calificaciones |-> calificaciones,
                     cache_estudiantes |-> cache_estudiantes,
                     cache_matriculas |-> cache_matriculas,
                     resultado |-> ResultadoProceso,
                     falla |-> f],
                    lista_final, CursoId, cursos, hoy)
       IN  /\ personas' = e.personas
           /\ aliases' = e.aliases
           /\ matriculas' = e.matriculas
           /\ calificaciones' = e.calificaciones
           /\ cache_estudiantes' = e.cache_estudiantes
           /\ cache_matriculas' = e.cache_matriculas
           /\ resultado' = e.resultado
           /\ aprendidos' = aprendidos \cup
                 {<<lista_final[k].cedula_original,
                    lista_final[k].cedula_limpia>> :
                    k \in {j \in DOMAIN lista_final :
                            corregida_y_guardada(lista_final[j],
                                                 e.resultado)}}
    /\ falla' = f
    /\ imp_pc' = "guardado"
    /\ ultima_op' = "otra"
    /\ cambiados' = 0
    /\ UNCHANGED <<hoy, cursos, evaluaciones, varsFn, archivo,
                   mapa_actividades, validos, revision, guion, lista_final,
                   lista_omitidos, reporte_errores>>

\* The commit on a database that answers every call
WorkerGuardadoRun == Guardar(SinFalla)

\* GestorImportacion._on_guardado_finished: the rows omitted in review are
\* added to registros_omitidos and the notes of the review are put before
\* the notes of the commit; the summary is shown.
OnGuardadoFinished ==
    /\ imp_pc = "guardado"
    /\ resultado' = [resultado EXCEPT
                        !.registros_omitidos = @ + Len(lista_omitidos),
                        !.errores = reporte_errores \o @]
    /\ imp_pc' = "resumen"
    /\ UNCHANGED <<varsBD, varsFn, aliases, archivo, mapa_actividades,
                   validos, revision, guion, lista_final, lista_omitidos,
                   reporte_errores, cache_estudiantes, cache_matriculas,
                   falla, aprendidos>>

\* The people of the store before the import
PersonasPrevias == SubSeq(PersonasIniciales, 2, 2)

\* The enrollment of BELEN before the import, and its grade detail
MatriculaPrevia ==
    [persona_id |-> 1, curso_id |-> CursoId, centro_id |-> CentroB,
     nota_final |-> 500, estado |-> "EN CURSO"]

DetallePrevio == [k \in {<<1, 1>>} |-> 500]

\* The store before an import: one course that ends today with one
\* evaluation of 100%, the person BELEN, not enrolled or enrolled in the
\* course, her grade entered as a detail or not, and with or without the
\* alias CedulaX learned in an earlier import.
InitImport ==
    /\ hoy = 1
    /\ cursos = <<[nota_aprobacion |-> 700, fecha_final |-> 1]>>
    /\ evaluaciones = <<[curso_id |-> CursoId, porcentaje |-> 100]>>
    /\ personas = PersonasPrevias
    /\ matriculas \in {<<>>, <<MatriculaPrevia>>}
    /\ calificaciones \in {<<>>, DetallePrevio}
    /\ calificaciones # <<>> => matriculas # <<>>
    /\ ultima_op = "otra"
    /\ cambiados = 0
    /\ SinFuncion
    /\ aliases \in {<<>>, <<[alias_valor |-> CedulaX, persona_id |-> 1]>>}
    /\ SinImportacion

NextImport ==
    \/ \E arch \in Archivos,
          mapa \in SUBSET esquema_curso(evaluaciones, CursoId) :
              Ejecutar(arch, mapa)
    \/ WorkerProcesamientoRun
    \/ \E g \in [DOMAIN revision -> Decisiones] : AlTerminarAnalisis(g)
    \/ WorkerGuardadoRun
    \/ OnGuardadoFinished

SpecImport == InitImport /\ [][NextImport]_vars

-----------------------------------------------------------------------------
(* The import on a database that can fail and lose the course *)

\* The persistence calls that can raise while the rows of a list are
\* committed: one step of one row
Fallas(lista) ==
    [fila : {lista[k].fila_excel : k \in DOMAIN lista}, paso : Pasos]

\* borrar_curso (controlador_cursos.py) from another window or another client of
\* the database while the commit waits to start: the course goes, and with
\* it (cascade) its evaluations, its enrollments and their grade details.
\* Every enrollment of the store of the import belongs to the course.
EliminarCurso ==
    /\ imp_pc = "guardando"
    /\ Len(cursos) = CursoId
    /\ \A m \in DOMAIN matriculas : matriculas[m].curso_id = CursoId
    /\ cursos' = SubSeq(cursos, 1, CursoId - 1)
    /\ evaluaciones' =
          SelectSeq(evaluaciones, LAMBDA ev : ev.curso_id # CursoId)
    /\ matriculas' = <<>>
    /\ calificaciones' = <<>>
    /\ ultima_op' = "otra"
    /\ cambiados' = 0
    /\ UNCHANGED <<hoy, personas, varsFn, varsImp>>

\* The files of the imports on a failing database: a new person, a row with
\* an unknown center, an identifier that fails the checksum and a person of
\* the store
ArchivosFallas ==
    LET filas == {f \in FilasMuestra :
                    f.cedula \in {CedulaA, CeldaAFloat, CedulaX, CedulaB}}
    IN  UNION {[1..n -> filas] : n \in 0..MaxFilas}

NextFallas ==
    \/ \E arch \in ArchivosFallas,
          mapa \in SUBSET esquema_curso(evaluaciones, CursoId) :
              Ejecutar(arch, mapa)
    \/ WorkerProcesamientoRun
    \/ \E g \in [DOMAIN revision -> Decisiones] : AlTerminarAnalisis(g)
    \/ EliminarCurso
    \/ \E f \in Fallas(lista_final) \cup {SinFalla} : Guardar(f)
    \/ OnGuardadoFinished

SpecFallas == InitImport /\ [][NextFallas]_vars

-----------------------------------------------------------------------------
(* Imports and manual matriculations, one after another *)

\* The row of the sample with the identifier cell `celda`
FilaDe(celda) == CHOOSE f \in FilasMuestra : f.cedula = celda

\* The sheets imported one after another: the identifier that fails the
\* checksum, alone, twice and with other rows, and the person of the store
ArchivosSecuencia ==
    {<<FilaDe(CedulaX)>>,
     <<FilaDe(CeldaXGuion)>>,
     <<FilaDe(CedulaX), FilaDe(CeldaXGuion)>>,
     <<FilaDe(CedulaA), FilaDe(CedulaX)>>,
     <<FilaDe(CedulaB)>>}

\* The workflow is over (_mostrar_resumen or the message box of an import
\* without rows has been closed): its locals and workers are gone, the
\* attributes of GestorImportacion and of PersistenceService stay.
Cerrar ==
    /\ imp_pc \in {"resumen", "sin registros", "cancelado"}
    /\ imp_pc' = "inactivo"
    /\ archivo' = <<>>
    /\ mapa_actividades' = {}
    /\ validos' = <<>>
    /\ revision' = <<>>
    /\ guion' = <<>>
    /\ lista_final' = <<>>
    /\ resultado' = ResultadoProceso
    /\ UNCHANGED <<varsBD, varsFn, aliases, lista_omitidos, reporte_errores,
                   cache_estudiantes, cache_matriculas, falla, aprendidos>>

NextSecuencia ==
    \/ \E arch \in ArchivosSecuencia,
          mapa \in SUBSET esquema_curso(evaluaciones, CursoId) :
              Ejecutar(arch, mapa)
    \/ WorkerProcesamientoRun
    \/ \E g \in [DOMAIN revision -> Decisiones] : AlTerminarAnalisis(g)
    \/ WorkerGuardadoRun
    \/ OnGuardadoFinished
    \/ Cerrar
    \/ \E p \in DOMAIN personas : imp_pc = "inactivo" /\ Matricular(p, CursoId)

SpecSecuencia == InitImport /\ [][NextSecuencia]_vars

-----------------------------------------------------------------------------
(* Claims about the import *)

\* The summary of a finished import is on screen
ImportTerminado == imp_pc = "resumen"

\* The notes of the result that report a failed commit of the row `fila`
ErroresDeFila(fila) ==
    {n \in DOMAIN resultado.errores :
        /\ resultado.errores[n].tipo \in {"Centro no existe",
                                          "Error crítico BD"}
        /\ resultado.errores[n].fila = fila}

\* The rows of the final list whose commit went through, by origin
Cometidas(origen) ==
    {k \in DOMAIN lista_final :
        /\ ErroresDeFila(lista_final[k].fila_excel) = {}
        /\ \E o \in DOMAIN origen :
              origen[o].fila_excel = lista_final[k].fila_excel}

\* C9 (as claimed): when an import has finished, the rows examined (the
\* rows with an identifier, all of which the validator put in one of its two
\* buckets) are as many as the rows accepted as valid, plus the rows
\* accepted after review, plus registros_omitidos of the result.
C9_Contabilidad ==
    ImportTerminado =>
        Len(validos) + Len(revision)
            = Cardinality(Cometidas(validos))
                + Cardinality(Cometidas(revision))
                + resultado.registros_omitidos

\* The registro the validator built from row i of the file
Registro(i) ==
    LET regs == validos \o revision
    IN  regs[CHOOSE k \in DOMAIN regs : regs[k].fila_excel = i + 1]

Examinada(i) == ~se_omite(limpiar_cedula(archivo[i].cedula))

\* Rows i < j are the only two rows of the file with their cleaned
\* identifier
ParDuplicado(i, j) ==
    /\ i < j
    /\ Examinada(i)
    /\ limpiar_cedula(archivo[i].cedula) = limpiar_cedula(archivo[j].cedula)
    /\ \A k \in DOMAIN archivo \ {i, j} :
          limpiar_cedula(archivo[k].cedula) # limpiar_cedula(archivo[i].cedula)

PersonasCon(cedula) == {p \in DOMAIN personas : personas[p].cedula = cedula}

MatriculasDe(p) ==
    {m \in DOMAIN matriculas :
        matriculas[m].persona_id = p /\ matriculas[m].curso_id = CursoId}

\* Person p and enrollment m carry the data of the registro: its center,
\* its grade and status (grade 0 with NO REALIZO) and, for a person the
\* import created, its name.
LlevaDatos(p, m, reg) ==
    LET estado == IF reg.es_no_realizo \/ reg.estado_sugerido = "NO REALIZO"
                  THEN "NO REALIZO"
                  ELSE reg.estado_sugerido
    IN  /\ personas[p].centro_id = reg.centro_nombre
        /\ (p > Len(PersonasPrevias) => personas[p].nombre = reg.nombre_limpio)
        /\ matriculas[m].centro_id = reg.centro_nombre
        /\ matriculas[m].estado = estado
        /\ matriculas[m].nota_final =
              (IF estado = "NO REALIZO" THEN 0 ELSE reg.nota_final)

NotasDuplicado(cedula) ==
    {n \in DOMAIN resultado.errores :
        /\ resultado.errores[n].tipo = "Duplicado interno"
        /\ resultado.errores[n].cedula = cedula}

\* What the dedup invariant promises for the rows i < j
UnaPersonaUnaMatricula(i, j) ==
    LET reg == Registro(j)
        cedula == reg.cedula_limpia
    IN  /\ Cardinality(PersonasCon(cedula)) = 1
        /\ \A p \in PersonasCon(cedula) :
              /\ Cardinality(MatriculasDe(p)) = 1
              /\ \A m \in MatriculasDe(p) : LlevaDatos(p, m, reg)
        /\ Cardinality(NotasDuplicado(cedula)) = 1
        /\ \A n \in NotasDuplicado(cedula) :
              resultado.errores[n].fila = reg.fila_excel
        /\ ErroresDeFila(i + 1) = {}
        /\ ErroresDeFila(j + 1) = {}

DuplicadoGuardable(i, j) ==
    LET reg == Registro(j)
        cedula == reg.cedula_limpia
        en_validos(k) == \E v \in DOMAIN validos :
                            validos[v].fila_excel = k + 1
    IN  /\ ParDuplicado(i, j)
        /\ en_validos(i)
        /\ en_validos(j)
        /\ \A k \in DOMAIN archivo \ {i, j} :
              Examinada(k) => Registro(k).cedula_limpia # cedula
        /\ \A n \in DOMAIN guion :
              ~(guion[n].accion = "corregir" /\ guion[n].nueva_ced = cedula
                    /\ guion[n].conflicto = "sobrescribir")
        /\ reg.centro_nombre \in CentrosBD
        /\ \/ \E p \in DOMAIN PersonasPrevias :
                  PersonasPrevias[p].cedula = cedula
           \/ \A p \in DOMAIN personas :
                  personas[p].correo = reg.correo
                      => personas[p].cedula = cedula

-----------------------------------------------------------------------------
(* Claims about the validator *)

\* The validator has run and nothing else has happened since
Analizado == imp_pc = "analizado"

\* How many registros of a bucket come from row i of the file
EnBucket(bucket, i) ==
    Cardinality({k \in DOMAIN bucket : bucket[k].fila_excel = i + 1})

\* The identifier of row i is an alias of a person of the store
EsAliasConocido(i) ==
    \E a \in DOMAIN aliases :
        /\ aliases[a].alias_valor = limpiar_cedula(archivo[i].cedula)
        /\ aliases[a].persona_id \in DOMAIN personas

\* The identifier row i resolves to: the identifier of the person of the
\* alias, or the cleaned identifier itself
CedulaResuelta(i) ==
    IF EsAliasConocido(i)
    THEN LET a == CHOOSE a \in DOMAIN aliases :
                     aliases[a].alias_valor = limpiar_cedula(archivo[i].cedula)
         IN  personas[aliases[a].persona_id].cedula
    ELSE limpiar_cedula(archivo[i].cedula)

-----------------------------------------------------------------------------
(* Claims about the commit *)

\* The step of the workflow in which guardar_lote runs
Guardado == imp_pc = "guardando" /\ imp_pc' = "guardado"

\* No table of the store changes in the step
SinEscrituras ==
    /\ personas' = personas
    /\ aliases' = aliases
    /\ matriculas' = matriculas
    /\ calificaciones' = calificaciones

\* The rows guardar_lote went through: each one is counted once, as omitted
\* or as a new or updated enrollment
FilasProcesadas(res) ==
    res.registros_omitidos + res.matriculas_nuevas
        + res.matriculas_actualizadas

EstadoAntes(k, f) ==
    guardar_lote([personas |-> personas, aliases |-> aliases,
                  matriculas |-> matriculas,
                  calificaciones |-> calificaciones,
                  cache_estudiantes |-> cache_estudiantes,
                  cache_matriculas |-> cache_matriculas,
                  resultado |-> ResultadoProceso,
                  falla |-> f],
                 SubSeq(lista_final, 1, k - 1), CursoId, cursos, hoy)

\* ... and after it
EstadoDespues(k, f) ==
    guardar_registro(EstadoAntes(k, f), lista_final[k], CursoId,
                     cursos[CursoId], hoy)

\* The commit of reg, from the state e, gets as far as the person write
LlegaAPersona(e, reg) == reg.centro_nombre \in CentrosBD

\* ... and makes it: a create, or an update because the center differs
EscribePersona(e, reg) ==
    /\ LlegaAPersona(e, reg)
    /\ reg.cedula_limpia \in DOMAIN e.cache_estudiantes
          => e.personas[e.cache_estudiantes[reg.cedula_limpia]].centro_id
                # reg.centro_nombre

\* The commit of reg gets past the person write
PasaPersona(e, reg) ==
    /\ LlegaAPersona(e, reg)
    /\ reg.cedula_limpia \notin DOMAIN e.cache_estudiantes
          => \A p \in DOMAIN e.personas :
                /\ e.personas[p].cedula # reg.cedula_limpia
                /\ e.personas[p].correo # reg.correo

\* The commit of reg, from the state e, makes the persistence call `paso`
Lanzada(e, reg, paso) ==
    CASE paso = "persona" -> EscribePersona(e, reg)
      [] paso = "alias" -> /\ PasaPersona(e, reg)
                           /\ reg.cedula_original # reg.cedula_limpia
      [] paso = "matricula" -> PasaPersona(e, reg)
      [] paso = "calificacion" -> /\ PasaPersona(e, reg)
                                  /\ reg.detalles_notas # <<>>
      [] OTHER -> FALSE

\* The row k of the list is the one whose persistence call raises
FilaConFalla(k, f) ==
    /\ f.fila = lista_final[k].fila_excel
    /\ Lanzada(EstadoAntes(k, f), lista_final[k], f.paso)

\* The commit of row k added one note for the row and counted it as omitted
NotadaYOmitida(k, f) ==
    LET antes == EstadoAntes(k, f).resultado
        despues == EstadoDespues(k, f).resultado
    IN  /\ Len(despues.errores) = Len(antes.errores) + 1
        /\ despues.errores[Len(despues.errores)].fila
              = lista_final[k].fila_excel
        /\ despues.registros_omitidos = antes.registros_omitidos + 1

\* C13 (as claimed): when a persistence call made while committing a row
\* raises (the write of the person, the alias, the enrollment or the grade
\* details), the result gets a note with the number of the row, the omitted
\* counter grows by one, and every row of the list is still processed.
C13_FallaAislada ==
    [][Guardado /\ CursoId \in DOMAIN cursos =>
          \A k \in DOMAIN lista_final :
              FilaConFalla(k, falla') =>
                  /\ NotadaYOmitida(k, falla')
                  /\ \E n \in DOMAIN resultado'.errores :
                        resultado'.errores[n].fila = falla'.fila
                  /\ FilasProcesadas(resultado') = Len(lista_final)]_vars

\* The commit of row k wrote no table and no cache and left the counters of
\* new people and of new and updated enrollments as they were
SinRastro(k, f) ==
    LET antes == EstadoAntes(k, f)
        despues == EstadoDespues(k, f)
    IN  /\ despues.personas = antes.personas
        /\ despues.aliases = antes.aliases
        /\ despues.matriculas = antes.matriculas
        /\ despues.calificaciones = antes.calificaciones
        /\ despues.resultado.nuevos_estudiantes
              = antes.resultado.nuevos_estudiantes
        /\ despues.resultado.matriculas_nuevas
              = antes.resultado.matriculas_nuevas
        /\ despues.resultado.matriculas_actualizadas
              = antes.resultado.matriculas_actualizadas

\* C14: when the center of a row of the list is not in the cache of centers,
\* its commit adds one note "Centro no existe" for the row, adds one to the
\* omitted counter, writes no person, alias, enrollment or grade detail,
\* leaves the other counters alone, and the remaining rows are processed.
C14_CentroInexistente ==
    [][Guardado /\ CursoId \in DOMAIN cursos =>
          \A k \in DOMAIN lista_final :
              lista_final[k].centro_nombre \notin CentrosBD =>
                  /\ NotadaYOmitida(k, falla')
                  /\ SinRastro(k, falla')
                  /\ \E n \in DOMAIN resultado'.errores :
                        /\ resultado'.errores[n].tipo = "Centro no existe"
                        /\ resultado'.errores[n].fila
                              = lista_final[k].fila_excel
                  /\ \A p \in DOMAIN personas' :
                        personas'[p].centro_id \in CentrosBD
                  /\ FilasProcesadas(resultado') = Len(lista_final)]_vars

\* A commit has omitted its first row for the unknown center and has
\* enrolled the person of the second row.
C14_Witness ==
    /\ imp_pc = "guardado"
    /\ Len(lista_final) = 2
    /\ lista_final[1].centro_nombre \notin CentrosBD
    /\ resultado.registros_omitidos = 1
    /\ \E n \in DOMAIN resultado.errores :
          /\ resultado.errores[n].tipo = "Centro no existe"
          /\ resultado.errores[n].fila = lista_final[1].fila_excel
    /\ resultado.matriculas_nuevas + resultado.matriculas_actualizadas = 1

\* The commit of row k counted the row as omitted
Omitida(k, f) ==
    EstadoDespues(k, f).resultado.registros_omitidos
        = EstadoAntes(k, f).resultado.registros_omitidos + 1

\* C15 (as claimed): the commit of a row is atomic: when the row is counted
\* as omitted, none of its writes (new person, center of the person, alias,
\* enrollment, grade details) is in the store and none of the counters of
\* new people and of new and updated enrollments has grown for it.
C15_Atomica ==
    [][Guardado /\ CursoId \in DOMAIN cursos =>
          \A k \in DOMAIN lista_final :
              Omitida(k, falla') => SinRastro(k, falla')]_vars

\* The rows of the list whose commit left no error note
FilaGuardada(k) == ErroresDeFila(lista_final[k].fila_excel) = {}

\* The grade details of enrollment m
DetallesDe(m) == {c \in DOMAIN calificaciones : c[1] = m}

\* C16 (as claimed): after guardar_lote has committed a row whose status
\* resolved to NO REALIZO, the final grade of the enrollment is 0 and every
\* grade detail of the enrollment has the score 0.
C16_AbandonoEnCero ==
    imp_pc = "guardado" /\ CursoId \in DOMAIN cursos =>
        \A k \in DOMAIN lista_final :
            FilaGuardada(k) =>
                \A p \in PersonasCon(lista_final[k].cedula_limpia) :
                    \A m \in MatriculasDe(p) :
                        matriculas[m].estado = "NO REALIZO" =>
                            /\ matriculas[m].nota_final = 0
                            /\ \A c \in DetallesDe(m) :
                                  calificaciones[c] = 0

-----------------------------------------------------------------------------
(* Claims about imports one after another *)

\* At most one enrollment for each person and course
UnaMatriculaPorPar ==
    \A m, n \in DOMAIN matriculas :
        /\ matriculas[m].persona_id = matriculas[n].persona_id
        /\ matriculas[m].curso_id = matriculas[n].curso_id
        => m = n

\* The rows of the list that guardar_lote commits without an error note and
\* whose person is enrolled in the course when the commit starts
FilasDeMatriculados(res) ==
    {k \in DOMAIN lista_final :
        /\ \A n \in DOMAIN res.errores :
              res.errores[n].fila # lista_final[k].fila_excel
        /\ \E p \in PersonasCon(lista_final[k].cedula_limpia) :
              MatriculasDe(p) # {}}

\* C17: through imports and manual matriculations made one after another
\* the store has at most one enrollment for each person and course, and a
\* committed row of a person already enrolled in the course is counted as an
\* updated enrollment and adds no enrollment.
C17_MatriculaUnica ==
    /\ []UnaMatriculaPorPar
    /\ [][Guardado =>
             /\ resultado'.matriculas_actualizadas
                   = Cardinality(FilasDeMatriculados(resultado'))
             /\ Len(matriculas')
                   = Len(matriculas) + resultado'.matriculas_nuevas]_vars

\* An import has updated the enrollment of a person that an earlier import
\* created, without creating a person or an enrollment.
C17_Witness ==
    /\ imp_pc = "guardado"
    /\ resultado.nuevos_estudiantes = 0
    /\ resultado.matriculas_nuevas = 0
    /\ resultado.matriculas_actualizadas = 1
    /\ \E k \in DOMAIN lista_final :
          \E p \in PersonasCon(lista_final[k].cedula_limpia) :
              /\ p > Len(PersonasPrevias)
              /\ Cardinality(MatriculasDe(p)) = 1

\* Row i of the file is in the valid bucket as a known alias of `cedula`
ResueltaPorAlias(i, cedula) ==
    /\ EnBucket(validos, i) = 1
    /\ EnBucket(revision, i) = 0
    /\ Registro(i).es_alias_conocido
    /\ Registro(i).cedula_limpia = cedula

CorreccionUnica(par) ==
    \A otro \in aprendidos : otro[1] = par[1] => otro[2] = par[2]

-----------------------------------------------------------------------------
(* ExcelEngine.mapear_columnas *)

MaxColumnas == 2

\* The fields, in the order of the dict COLUMNA_ALIAS
Campos == <<"cedula", "nombre", "apellido", "correo", "centro",
            "institucion_articulada">>

\* config.mappings.COLUMNA_ALIAS
COLUMNA_ALIAS ==
    [cedula |-> {"CEDULA", "IDENTIFICACION", "DNI", "ID_PERSONA", "USUARIO",
                 "CEDULA DE IDENTIDAD"},
     nombre |-> {"NOMBRE", "NOMBRES", "PRIMER NOMBRE"},
     apellido |-> {"APELLIDO", "APELLIDOS", "PATERNO", "APELLIDO(S)"},
     correo |-> {"CORREO", "EMAIL", "MAIL", "E-MAIL"},
     centro |-> {"CENTRO", "UBICACION", "LUGAR", "SEDE"},
     institucion_articulada |-> {"INSTITUCION", "INSTITUCION ARTICULADA"}]

\* Sanitizer.limpiar_texto(key).upper()
ClaveMayusculas ==
    [cedula |-> "CEDULA", nombre |-> "NOMBRE", apellido |-> "APELLIDO",
     correo |-> "CORREO", centro |-> "CENTRO",
     institucion_articulada |-> "INSTITUCION_ARTICULADA"]

\* Headers of the sheets, as ExcelEngine.cargar leaves them
Encabezados ==
    {"CEDULA", "NOMBRES Y APELLIDOS", "EMAIL", "CORREO DEL CENTRO", "NOTA 1"}

\* `alias in col` on the aliases and the headers of the sample
EstaEn ==
    {<<"CEDULA", "CEDULA">>,
     <<"NOMBRE", "NOMBRES Y APELLIDOS">>,
     <<"NOMBRES", "NOMBRES Y APELLIDOS">>,
     <<"APELLIDO", "NOMBRES Y APELLIDOS">>,
     <<"APELLIDOS", "NOMBRES Y APELLIDOS">>,
     <<"CORREO", "CORREO DEL CENTRO">>,
     <<"EMAIL", "EMAIL">>,
     <<"MAIL", "EMAIL">>,
     <<"CENTRO", "CORREO DEL CENTRO">>}

\* The callback returns None
Ninguna == ""

\* One iteration of `for key, alias_list in COLUMNA_ALIAS.items()`; st holds
\* mapa_cols and used_cols, callback[key] is what the callback returns when
\* it is asked for the field
mapear_campo(st, key, cols_df, callback) ==
    LET libre(i) == cols_df[i] \notin st.used_cols
        exacta(i) == /\ libre(i)
                     /\ \/ cols_df[i] = ClaveMayusculas[key]
                        \/ cols_df[i] \in COLUMNA_ALIAS[key]
        parcial(i) == /\ libre(i)
                      /\ \E alias \in COLUMNA_ALIAS[key] :
                            <<alias, cols_df[i]>> \in EstaEn
        \* the column at which the loop over cols_df breaks, or 0
        primera(Pasa(_)) ==
            IF \E i \in DOMAIN cols_df : Pasa(i)
            THEN CHOOSE i \in DOMAIN cols_df :
                    Pasa(i) /\ \A j \in DOMAIN cols_df : Pasa(j) => i <= j
            ELSE 0
        i1 == primera(exacta)
        i2 == primera(parcial)
        asignar(col) == [mapa_cols |-> Poner(st.mapa_cols, key, col),
                         used_cols |-> st.used_cols \cup {col}]
    IN  IF i1 # 0 THEN asignar(cols_df[i1])
        ELSE IF i2 # 0 THEN asignar(cols_df[i2])
        ELSE IF callback[key] # Ninguna THEN asignar(callback[key])
        ELSE st

\* ExcelEngine.mapear_columnas: mapa_cols after the loop over the fields
RECURSIVE mapear_hasta(_, _, _)
mapear_hasta(n, cols_df, callback) ==
    IF n = 0
    THEN [mapa_cols |-> <<>>, used_cols |-> {}]
    ELSE mapear_campo(mapear_hasta(n - 1, cols_df, callback), Campos[n],
                      cols_df, callback)

mapear_columnas(cols_df, callback) ==
    mapear_hasta(Len(Campos), cols_df, callback).mapa_cols

\* The callbacks: for every field, a column of the list it is shown
\* (QInputDialog.getItem over cols_df) or None
Callbacks(cols_df) ==
    [{Campos[k] : k \in DOMAIN Campos} ->
        {cols_df[i] : i \in DOMAIN cols_df} \cup {Ninguna}]

\* The header rows: different headers in any order
ListasDeColumnas ==
    {c \in UNION {[1..n -> Encabezados] : n \in 0..MaxColumnas} :
        \A i, j \in DOMAIN c : c[i] = c[j] => i = j}

InitColumnas ==
    /\ hoy = 1
    /\ BDVacia
    /\ entrada \in [op : {"mapear_columnas"}, cols_df : ListasDeColumnas]
    /\ salida = NoLlamado
    /\ previa = <<>>
    /\ aliases = <<>>
    /\ SinImportacion

LlamarMapear ==
    /\ entrada.op = "mapear_columnas"
    /\ salida = NoLlamado
    /\ \E callback \in Callbacks(entrada.cols_df) :
          salida' = <<mapear_columnas(entrada.cols_df, callback)>>
    /\ UNCHANGED <<varsBD, entrada, previa, varsImp>>

NextColumnas == LlamarMapear

SpecColumnas == InitColumnas /\ [][NextColumnas]_vars

\* mapear_columnas has returned
MapearLlamado == entrada.op = "mapear_columnas" /\ salida # NoLlamado

\* C19 (as claimed): after mapear_columnas no column is assigned to two
\* different fields, whatever the headers and the answers of the callback.
C19_MapeoInyectivo ==
    MapearLlamado =>
        \A k1, k2 \in DOMAIN salida[1] :
            salida[1][k1] = salida[1][k2] => k1 = k2

-----------------------------------------------------------------------------
(* Sanitizer.limpiar_cedula on the text of any identifier cell *)

MaxLargoCelda == 4

\* Characters of the cells: three digits and the three separators
CaracteresCelda == {0, 1, 7, Guion, Punto, Coma}

\* An identifier typed with thousands separators: 1.710.034.065
CeldaConPuntos == <<1, Punto, 7, 1, 0, Punto, 0, 3, 4, Punto, 0, 6, 5>>

\* The values handed to limpiar_cedula: NaN (CeldaVacia) and str(valor) of
\* the other cells
CeldasCedula ==
    UNION {[1..n -> CaracteresCelda] : n \in 0..MaxLargoCelda}
        \cup {CeldaConPuntos}

InitLimpiar ==
    /\ hoy = 1
    /\ BDVacia
    /\ entrada \in [op : {"limpiar_cedula"}, valor : CeldasCedula]
    /\ salida = NoLlamado
    /\ previa = <<>>
    /\ aliases = <<>>
    /\ SinImportacion

LlamarLimpiar ==
    /\ entrada.op = "limpiar_cedula"
    /\ salida = NoLlamado
    /\ salida' = <<limpiar_cedula(entrada.valor)>>
    /\ UNCHANGED <<varsBD, entrada, previa, varsImp>>

NextLimpiar == LlamarLimpiar

SpecLimpiar == InitLimpiar /\ [][NextLimpiar]_vars

\* limpiar_cedula has returned
LimpiarLlamado == entrada.op = "limpiar_cedula" /\ salida # NoLlamado

\* The value without the '.0' artifacts at its end
RECURSIVE SinPuntoCeroFinal(_)
SinPuntoCeroFinal(c) ==
    IF Len(c) >= 2 /\ c[Len(c) - 1] = Punto /\ c[Len(c)] = 0
    THEN SinPuntoCeroFinal(SubSeq(c, 1, Len(c) - 2))
    ELSE c

\* The digits of a value, in order
SoloDigitos(c) == SelectSeq(c, LAMBDA x : x \in Digitos)

\* C20 (as claimed): limpiar_cedula returns the digits of its input, in order,
\* except those of a '.0' at the end of the value: the separators '.', '-'
\* and ',' are gone, no other digit is lost, and a null input gives the empty
\* string.
C20_ConservaDigitos ==
    LimpiarLlamado =>
        salida[1] = SoloDigitos(SinPuntoCeroFinal(entrada.valor))

-----------------------------------------------------------------------------
(* The whole program: the dialogs, the recomputes, the sweep and imports *)

\* Weights the spin box of DialogoEsquemaEvaluacion is set to
PorcentajesUI == {50, 100}

\* A sheet row of a new person whose grade cell holds 15
NotaFueraDeRango == 1500
FilaFueraDeRango ==
    Fila(CedulaA, "Ana", "Pérez", "Planta Central", "ana@ecu911.ec",
         <<NotaFueraDeRango>>)

\* The sheet imported while the dialogs are used, any number of times: the
\* person is new in the first import and enrolled in the later ones
ArchivosSistema == {<<FilaFueraDeRango>>}

\* The stored details of enrollment m with the weights of the scheme:
\* `mapa_pesos.get(nota.evaluacion_curso_id, 0.0)`
lista_notas_guardadas(m, cals, evs, curso_id) ==
    LET orden == EnOrden({k[2] : k \in {x \in DOMAIN cals : x[1] = m}})
    IN  [n \in DOMAIN orden |->
            [puntaje |-> cals[<<m, orden[n]>>],
             peso |-> IF orden[n] \in esquema_curso(evs, curso_id)
                      THEN evs[orden[n]].porcentaje
                      ELSE 0]]

\* DialogoEsquemaEvaluacion.actualizar_porcentaje_bd: the weight is stored
\* and recalcular_promedios_globales computes nota_final of every enrollment
\* of the course that is not NO REALIZO from its stored details, then calls
\* actualizar_estados_por_curso.
ActualizarPorcentaje(ev, nuevo_valor) ==
    LET evs == [evaluaciones EXCEPT ![ev].porcentaje = nuevo_valor]
        c == evaluaciones[ev].curso_id
        recalculadas == {m \in DOMAIN matriculas :
                            /\ matriculas[m].curso_id = c
                            /\ matriculas[m].estado # "NO REALIZO"}
        opciones(m) == calcular_nota_ponderada(
                          lista_notas_guardadas(m, calificaciones, evs, c))
    IN  /\ ev \in DOMAIN evaluaciones
        /\ evaluaciones' = evs
        /\ \E promedios \in [recalculadas ->
                                UNION {opciones(m) : m \in recalculadas}] :
              /\ \A m \in recalculadas : promedios[m] \in opciones(m)
              /\ LET con_notas ==
                        [m \in DOMAIN matriculas |->
                            IF m \in recalculadas
                            THEN [matriculas[m] EXCEPT
                                    !.nota_final = promedios[m]]
                            ELSE matriculas[m]]
                     nuevas == actualizar_estados_por_curso(
                                   con_notas, c, cursos[c], hoy)
                 IN  /\ matriculas' = nuevas
                     /\ cambiados' = HuboCambios(con_notas, nuevas)
        /\ ultima_op' = "actualizar_estados_por_curso"
        /\ UNCHANGED <<hoy, cursos, personas, calificaciones>>
        /\ UNCHANGED <<varsFn, varsImp>>

\* The store when the program is installed: one course, its evaluation and
\* one person
InitSistema ==
    /\ hoy = 1
    /\ cursos \in [{CursoId} -> [nota_aprobacion : {700},
                                 fecha_final : Dias]]
    /\ evaluaciones = <<[curso_id |-> CursoId, porcentaje |-> 100]>>
    /\ personas = PersonasPrevias
    /\ matriculas = <<>>
    /\ calificaciones = <<>>
    /\ ultima_op = "otra"
    /\ cambiados = 0
    /\ SinFuncion
    /\ aliases = <<>>
    /\ SinImportacion

\* No import is in progress: the dialogs and the sweep run then
Quieto == imp_pc = "inactivo"

NextSistema ==
    \/ \E p \in DOMAIN personas : Quieto /\ Matricular(p, CursoId)
    \/ \E m \in DOMAIN matriculas, es_abandono \in BOOLEAN :
          \E valores \in [esquema_curso(evaluaciones, matriculas[m].curso_id)
                            -> PuntajesUI] :
              Quieto /\ GuardarNotas(m, es_abandono, valores)
    \/ \E n \in UmbralesUI, f \in Dias :
          Quieto /\ GuardarCambiosCurso(CursoId, n, f)
    \/ \E ev \in DOMAIN evaluaciones, pct \in PorcentajesUI :
          Quieto /\ ActualizarPorcentaje(ev, pct)
    \/ Quieto /\ Mantenimiento
    \/ Quieto /\ PasarDia
    \/ \E arch \in ArchivosSistema,
          mapa \in SUBSET esquema_curso(evaluaciones, CursoId) :
              Ejecutar(arch, mapa)
    \/ WorkerProcesamientoRun
    \/ \E g \in [DOMAIN revision -> Decisiones] : AlTerminarAnalisis(g)
    \/ WorkerGuardadoRun
    \/ OnGuardadoFinished
    \/ Cerrar

SpecSistema == InitSistema /\ [][NextSistema]_vars

\* The values of the column estado
EstadosMatricula == {"EN CURSO", "APROBADO", "REPROBADO", "NO REALIZO"}

\* C21 (as claimed): in every reachable state the estado of every stored
\* enrollment is one of EN CURSO, APROBADO, REPROBADO, NO REALIZO.
C21_DominioDeEstado ==
    \A m \in DOMAIN matriculas : matriculas[m].estado \in EstadosMatricula

-----------------------------------------------------------------------------
(* Claims about the review *)

\* _al_terminar_analisis has gone through the review dialogs and the commit
\* has not started
Revisado == imp_pc \in {"guardando", "cancelado"} /\ revision # <<>>

\* The rows _resolver_revisiones_interactivas returned
Aceptados ==
    _resolver_revisiones_interactivas(
        revision, deduplicar(validos).mapa_maestro, guion,
        cache_estudiantes).aceptados

\* The answers given for the row of the review list that reg comes from
DecisionDe(reg) ==
    guion[CHOOSE n \in DOMAIN revision :
            revision[n].fila_excel = reg.fila_excel]

EsDePersona(cedula) == \E p \in DOMAIN personas : personas[p].cedula = cedula

-----------------------------------------------------------------------------
(* Claims about the commit of a row of a person of the store *)

\* The commit of the step left no error note for row k of the final list
FilaGuardadaEnPaso(k) ==
    \A n \in DOMAIN resultado'.errores :
        resultado'.errores[n].fila # lista_final[k].fila_excel

\* After the step enrollment m of person p carries the row: its center, the
\* resolved status, the final grade and one grade detail per linked
\* evaluation (all 0 with NO REALIZO)
MatriculaConFila(p, m, reg) ==
    /\ matriculas'[m].persona_id = p
    /\ matriculas'[m].curso_id = CursoId
    /\ matriculas'[m].centro_id = reg.centro_nombre
    /\ matriculas'[m].estado =
          determinar_estado(reg.nota_final, cursos[CursoId],
              reg.es_no_realizo \/ reg.estado_sugerido = "NO REALIZO", hoy)
    /\ matriculas'[m].nota_final =
          nota_final_bd(matriculas'[m].estado, reg.nota_final)
    /\ \A d \in DOMAIN reg.detalles_notas :
          /\ <<m, reg.detalles_notas[d].evaluacion_id>>
                \in DOMAIN calificaciones'
          /\ calificaciones'[<<m, reg.detalles_notas[d].evaluacion_id>>] =
                puntaje_a_guardar(matriculas'[m].estado,
                                  reg.detalles_notas[d].puntaje)

\* C23: when guardar_lote commits a row whose identifier is the one of a
\* person of the store, no person is created for it and nuevos_estudiantes
\* counts only the people created, the person keeps name, email and
\* identifier, and an enrollment of that person carries the row's status,
\* grade and grade details.
C23_FusionConservaPersona ==
    [][Guardado =>
        \A k \in DOMAIN lista_final :
            \A p \in PersonasCon(lista_final[k].cedula_limpia) :
                FilaGuardadaEnPaso(k) =>
                    /\ {q \in DOMAIN personas' :
                          personas'[q].cedula = personas[p].cedula} = {p}
                    /\ resultado'.nuevos_estudiantes =
                          Len(personas') - Len(personas)
                    /\ personas'[p].nombre = personas[p].nombre
                    /\ personas'[p].correo = personas[p].correo
                    /\ personas'[p].cedula = personas[p].cedula
                    /\ \E m \in DOMAIN matriculas' :
                          MatriculaConFila(p, m, lista_final[k])]_vars

\* A row corrected in review to the identifier of BELEN, with another name
\* and another center, has been committed beside a row of a new person.
C23_Witness ==
    /\ imp_pc = "guardado"
    /\ resultado.nuevos_estudiantes = 1
    /\ \E k \in DOMAIN lista_final :
          /\ FilaGuardada(k)
          /\ lista_final[k].cedula_original # lista_final[k].cedula_limpia
          /\ lista_final[k].cedula_limpia = personas[1].cedula
          /\ lista_final[k].nombre_limpio # personas[1].nombre
          /\ personas[1].centro_id # PersonasPrevias[1].centro_id

-----------------------------------------------------------------------------
(* Validator._procesar_notas_fila on the grade cells of one row *)

MaxActividades == 2

\* The cells of a grade column
CeldasNota ==
    {CeldaVacia, CeldaGuion, CeldaBlanco, CeldaTextoNan, CeldaNone,
     CeldaTexto, <<0>>, <<700>>}

\* esquema_ponderacion: the evaluations of the course, 50% each
EsquemaMuestra ==
    [e \in 1..MaxActividades |-> [curso_id |-> CursoId, porcentaje |-> 50]]

\* Validator._procesar_notas_fila: the tuple it returns, promedio_final
\* being the value calcular_nota_ponderada returned
_procesar_notas_fila(row, mapa, curso, hoy_, promedio_final) ==
    [promedio_final |-> promedio_final,
     estado |-> determinar_estado(promedio_final, curso,
                                  todo_vacio(row, mapa), hoy_),
     detalles |-> detalles_fila(row, mapa),
     todo_vacio |-> todo_vacio(row, mapa)]

InitNotasFila ==
    /\ hoy = 1
    /\ BDVacia
    /\ entrada \in [op : {"_procesar_notas_fila"},
                    row : [notas : [1..MaxActividades -> CeldasNota]],
                    mapa : SUBSET (1..MaxActividades),
                    curso : [nota_aprobacion : {700}, fecha_final : {0, 1}]]
    /\ salida = NoLlamado
    /\ previa = <<>>
    /\ aliases = <<>>
    /\ SinImportacion

LlamarProcesarNotas ==
    /\ entrada.op = "_procesar_notas_fila"
    /\ salida = NoLlamado
    /\ \E promedio_final \in
            calcular_nota_ponderada(
                lista_para_calculo(entrada.row, entrada.mapa,
                                   EsquemaMuestra)) :
          salida' = <<_procesar_notas_fila(entrada.row, entrada.mapa,
                                           entrada.curso, hoy,
                                           promedio_final)>>
    /\ UNCHANGED <<varsBD, entrada, previa, varsImp>>

NextNotasFila == LlamarProcesarNotas

SpecNotasFila == InitNotasFila /\ [][NextNotasFila]_vars

\* _procesar_notas_fila has returned
NotasFilaLlamado == entrada.op = "_procesar_notas_fila" /\ salida # NoLlamado

\* The cell is blank or holds one of the sentinels '-', '', 'nan', 'None'
EsCentinela(celda) ==
    celda \in {CeldaVacia, CeldaGuion, CeldaBlanco, CeldaTextoNan, CeldaNone}

\* The cell holds a number
TieneNota(celda) == celda # CeldaVacia /\ celda[1] >= 0

\* C24 (as claimed): _procesar_notas_fila returns the flag true exactly when
\* every linked cell of the row is blank or a sentinel ('-', '', 'nan',
\* 'None'); with the flag true the status is NO REALIZO; a row with a linked
\* cell that holds a score has the flag false.
C24_TodoVacio ==
    NotasFilaLlamado =>
        LET celdas == {entrada.row.notas[e] : e \in entrada.mapa}
        IN  /\ salida[1].todo_vacio <=> \A c \in celdas : EsCentinela(c)
            /\ salida[1].todo_vacio => salida[1].estado = "NO REALIZO"
            /\ (\E c \in celdas : TieneNota(c)) => ~salida[1].todo_vacio

-----------------------------------------------------------------------------
(* Claims about the maintenance sweep *)

C26_BarridoConverge ==
    ultima_op \in {Barrido, BarridoRepetido} =>
        \A i \in DOMAIN matriculas :
            cursos[matriculas[i].curso_id].fecha_final < hoy =>
                matriculas[i].estado \in {"APROBADO", "REPROBADO", "NO REALIZO"}

-----------------------------------------------------------------------------
(* Claims about the order of the commit *)

\* C27 (as claimed): guardar_lote goes through the final list from its first
\* element to its last, and of any two rows it commits the one with the
\* smaller spreadsheet row number comes first, also for rows accepted after
\* review and rows that replaced an earlier duplicate.
C27_OrdenDeGuardado ==
    imp_pc = "guardado" =>
        \A j, k \in DOMAIN lista_final :
            /\ FilaGuardada(j)
            /\ FilaGuardada(k)
            /\ lista_final[j].fila_excel < lista_final[k].fila_excel
            => j < k

-----------------------------------------------------------------------------
(* Claims about an import without linked grade columns *)

\* C28 (as claimed): when the import runs with no activity column linked,
\* the commit of a row of a person already enrolled in the course leaves
\* nota_final and estado of that enrollment unchanged, and the commit writes
\* no grade detail.
C28_SoloDatosPersonales ==
    [][Guardado /\ mapa_actividades = {} =>
        /\ calificaciones' = calificaciones
        /\ \A k \in DOMAIN lista_final :
              FilaGuardadaEnPaso(k) =>
                  \A p \in PersonasCon(lista_final[k].cedula_limpia) :
                      \A m \in MatriculasDe(p) :
                          /\ matriculas'[m].nota_final =
                                matriculas[m].nota_final
                          /\ matriculas'[m].estado = matriculas[m].estado]_vars

-----------------------------------------------------------------------------
(* Claims about the stored grades of the whole program *)

\* The grade 10.0, the top of the scale
NotaMaxima == 1000

\* C29 (as claimed): in every reachable state every stored nota_final is
\* null or between 0 and 10, and every stored puntaje of a grade detail is
\* between 0 and 10, whatever the cells of the sheet hold.
C29_RangoDeNotas ==
    /\ \A m \in DOMAIN matriculas :
          \/ matriculas[m].nota_final = NULL
          \/ /\ 0 <= matriculas[m].nota_final
             /\ matriculas[m].nota_final <= NotaMaxima
    /\ \A k \in DOMAIN calificaciones :
          /\ 0 <= calificaciones[k]
          /\ calificaciones[k] <= NotaMaxima


\* C30: in every reachable state of the whole program every enrollment whose
\* estado is NO REALIZO has nota_final 0.0 or null.
C30_NoRealizoSinNota ==
    \A m \in DOMAIN matriculas :
        matriculas[m].estado = "NO REALIZO" =>
            matriculas[m].nota_final \in {0, NULL}


\* An enrollment resolved as NO REALIZO holds grade details and has gone
\* through a recompute of the states of its course
C30_Witness ==
    /\ ultima_op = "actualizar_estados_por_curso"
    /\ \E m \in DOMAIN matriculas :
          /\ matriculas[m].estado = "NO REALIZO"
          /\ matriculas[m].nota_final = 0
          /\ \E k \in DOMAIN calificaciones : k[1] = m

====
